---------------------------- MODULE Spec2Model ----------------------------
(***************************************************************************)
(* Brutal Maze: the maze/combat simulation core (brutalmaze/maze.py,       *)
(* characters.py, weapons.py, game.py) as a state machine.                 *)
(*                                                                         *)
(* Real numbers of the program (Python floats) are exact rationals <<n,d>> *)
(* with d > 0 in lowest terms; square roots are rounded down to 1/SqrtDen. *)
(* The grid, the window and the frame rates are scaled down (see the       *)
(* geometry section); the operations are translated statement by statement.*)
(***************************************************************************)
EXTENDS Integers, Sequences, FiniteSets, TLC

(***************************************************************************)
(* Exact rational arithmetic                                               *)
(***************************************************************************)
RECURSIVE Gcd(_, _)
Gcd(a, b) == IF b = 0 THEN a ELSE Gcd(b, a % b)

IAbs(n) == IF n < 0 THEN -n ELSE n

ISign(n) == IF n < 0 THEN -1 ELSE IF n > 0 THEN 1 ELSE 0

IMax(a, b) == IF a >= b THEN a ELSE b

RNorm(n, d) ==
    LET s == IF d < 0 THEN -1 ELSE 1
        g == Gcd(IAbs(n), IAbs(d))
    IN  IF n = 0 THEN <<0, 1>> ELSE <<(s * n) \div g, (s * d) \div g>>

R(n) == <<n, 1>>

RAdd(a, b) ==
    LET g == Gcd(a[2], b[2])
    IN  RNorm(a[1] * (b[2] \div g) + b[1] * (a[2] \div g), (a[2] \div g) * b[2])

RSub(a, b) == RAdd(a, <<-b[1], b[2]>>)

RMul(a, b) == RNorm(a[1] * b[1], a[2] * b[2])

RDiv(a, b) == RNorm(a[1] * b[2], a[2] * b[1])

RNeg(a) == <<-a[1], a[2]>>

RAbs(a) == <<IAbs(a[1]), a[2]>>

RLt(a, b) == a[1] * b[2] < b[1] * a[2]

RLe(a, b) == a[1] * b[2] <= b[1] * a[2]

RMax(a, b) == IF RLt(a, b) THEN b ELSE a

RZero == <<0, 1>>

RIsZero(a) == a[1] = 0

\* misc.sign
sign(a) == ISign(a[1])

\* Python int(): truncation toward zero
RTrunc(a) == IF a[1] >= 0 THEN a[1] \div a[2] ELSE -((-a[1]) \div a[2])

\* Python 3 round(): to the nearest integer, ties to the even one
RRound(a) ==
    LET q == a[1] \div a[2]
        r == a[1] - q * a[2]
    IN  IF 2 * r < a[2] THEN q
        ELSE IF 2 * r > a[2] THEN q + 1
        ELSE IF q % 2 = 0 THEN q ELSE q + 1

\* misc.round2
round2(a) == RRound(a)

RECURSIVE ISqrtBin(_, _, _)
ISqrtBin(n, lo, hi) ==
    IF hi - lo <= 1 THEN lo
    ELSE LET mid == (lo + hi) \div 2
         IN  IF mid * mid <= n THEN ISqrtBin(n, mid, hi) ELSE ISqrtBin(n, lo, mid)

\* floor of the square root of a natural number below 2^30
ISqrt(n) == ISqrtBin(n, 0, 32768)

\* resolution of the rounded square root
SqrtDen == 10

\* x ** 0.5, rounded down to a multiple of 1/SqrtDen
RSqrt(a) ==
    LET q == a[1] \div a[2]
        r == a[1] % a[2]
    IN  RNorm(ISqrt(q * SqrtDen * SqrtDen + (r * SqrtDen * SqrtDen) \div a[2]), SqrtDen)

RSum2(a, b) == RAdd(RMul(a, a), RMul(b, b))

(***************************************************************************)
(* constants.py                                                            *)
(***************************************************************************)
SQRT2 == <<7, 5>>

EMPTY == 0
WALL == 1
HERO == 2
ENEMY == 3

\* the maze is scaled down from MAZE_SIZE = 10 cells with ROAD_WIDTH = 5 grids
MAZE_SIZE == 3
ROAD_WIDTH == 3
\* maze.py imports WALL_WIDTH, CELL_NODES, ADJACENTS and MAX_WOUND, which
\* constants.py does not define: a cell is road, wall, road (maze.py:121-126).
\* Walls of 3 grids are the thinnest to have a grid with WALL on all four sides.
WALL_WIDTH == 3
CELL_WIDTH == WALL_WIDTH + ROAD_WIDTH * 2
\* CELL_NODES[0], CELL_NODES[1], CELL_NODES[-1]
CELL_NODES(d) == IF d = 0 THEN ROAD_WIDTH
                 ELSE IF d = 1 THEN ROAD_WIDTH + WALL_WIDTH ELSE 0
MIDDLE == (((MAZE_SIZE + (MAZE_SIZE % 2)) - 1) * CELL_WIDTH) \div 2 + ROAD_WIDTH
GridSize == MAZE_SIZE * CELL_WIDTH

HEAL_SPEED == 1
HERO_SPEED == 5
ENEMY_SPEED == 6
BULLET_SPEED == 15
ATTACK_SPEED == <<333333, 1000>>
FIRANGE == 6
BULLET_LIFETIME == RDiv(R(1000 * FIRANGE), R(BULLET_SPEED - HERO_SPEED))
ADJACENTS == <<<<1, 0>>, <<0, 1>>, <<-1, 0>>, <<0, -1>>>>
AROUND_HERO == {<<MIDDLE + a, MIDDLE + b>> : a \in -1..1, b \in -1..1} \ {<<MIDDLE, MIDDLE>>}
ENEMIES == {"Butter", "Orange", "Chocolate", "Chameleon", "SkyBlue", "Plum", "ScarletRed"}
MINW == 24
MAXW == 36
ENEMY_HP == 3
HERO_HP == 5
MIN_BEAT == 526
MAX_WOUND == 1

\* the golden mean 5**0.5/2 + 0.5, as the ratio of two Fibonacci numbers
INIT_SCORE == <<13, 8>>

(***************************************************************************)
(* Geometry (Maze.__init__, Hero.__init__), scaled down: a WinW x WinH     *)
(* pixel window shows (2*HalfW+1) x (2*HalfH+1) grids of `distance` pixels *)
(***************************************************************************)
WinW == 32
WinH == 32
\* (w * h / 416) ** 0.5 for a window of 16 instead of 416 grids
distance == R(8)
HeroX == WinW \div 2
HeroY == WinH \div 2
\* (w * h / sin(pi*2/3) / 624) ** 0.5 is 0.877 * distance
HeroR == R(7)
HalfW == RTrunc(RAdd(RDiv(RDiv(R(WinW), distance), R(2)), R(1)))
HalfH == RTrunc(RAdd(RDiv(RDiv(R(WinH), distance), R(2)), R(1)))
rangex == (MIDDLE - HalfW)..(MIDDLE + HalfW)
rangey == (MIDDLE - HalfH)..(MIDDLE + HalfH)
slashd == RAdd(HeroR, RDiv(distance, SQRT2))

Idx == 0..(GridSize - 1)

\* Python list/deque indexing: a negative index counts from the end
PyIdx(i) == IF i < 0 THEN i + GridSize ELSE i

\* Python floor division by a nonzero integer
PyFloorDiv(a, b) == IF b > 0 THEN a \div b ELSE (-a) \div (-b)

(***************************************************************************)
(* Bounds of the model                                                     *)
(***************************************************************************)
\* number of Maze.update calls explored from an initial state
MaxTicks == 2
\* most enemies alive at once
MaxEnemies == 4
\* most bullets in flight at once
MaxBullets == 2
\* connections the thread of the server accepts
MaxClients == 1
\* replies the thread of the server receives
MaxReplies == 1
\* frame rates handed to Maze.update
FpsSet == {10, 20}
\* number of candidate walls choice(walls) is explored over in Maze.add_enemy
SpawnSites == 2
\* the colours choice(ENEMIES) is explored over in new_enemy
SpawnColors == {"Plum", "ScarletRed"}

VARIABLES
    pc,             \* position in the main loop / in Maze.update
    ticks,          \* number of Maze.update calls started
    server,         \* Game.server is not None
    crashed,        \* an exception escaped Maze.update
    fps,            \* Maze.fps
    map,            \* Maze.map[x][y]
    centerx, centery,
    vx, vy,
    rotatex, rotatey,
    destx, desty, stepx, stepy,
    next_move, glitch, next_slashfx,
    score,
    enemy_weights,
    enemies,        \* Maze.enemies: sequence of enemy records
    bullets,        \* Maze.bullets: sequence of bullet records
    hero,           \* Maze.hero
    idx,            \* index of the enemy whose update is next
    died,           \* history: the enemies Enemy.die() ran on in the last step
    asked,          \* history: <<vx, vy>> as the last Maze.update found them
    sockinp,        \* Game.sockinp
    tpc,            \* position of the thread that runs Game.remote_control
    clients,        \* number of connections the thread has accepted
    replies,        \* number of replies the thread has received
    buf,            \* remote_control: the tokens of the last reply
    data,           \* remote_control: the export in progress
    sent            \* history: the last snapshot sent

vars == <<pc, ticks, server, crashed, fps, map, centerx, centery, vx, vy,
          rotatex, rotatey, destx, desty, stepx, stepy, next_move, glitch,
          next_slashfx, score, enemy_weights, enemies, bullets, hero, idx,
          died, asked, sockinp, tpc, clients, replies, buf, data, sent>>

(***************************************************************************)
(* The grid                                                                *)
(***************************************************************************)
MapAt(m, i, j) == m[PyIdx(i)][PyIdx(j)]

MapSet(m, i, j, v) == [m EXCEPT ![PyIdx(i)][PyIdx(j)] = v]

\* deque.rotate(n) of the outer deque
RotateX(m, n) == [i \in Idx |-> m[(i - n) % GridSize]]

\* deque.rotate(n) of every inner deque
RotateY(m, n) == [i \in Idx |-> [j \in Idx |-> m[i][(j - n) % GridSize]]]

\* Maze.get_pos
get_pos(cx, cy, x, y) ==
    <<RAdd(cx, RMul(R(x - MIDDLE), distance)), RAdd(cy, RMul(R(y - MIDDLE), distance))>>

\* Maze.get_grid
get_grid(cx, cy, x, y) ==
    <<MIDDLE + round2(RDiv(RSub(x, cx), distance)),
      MIDDLE + round2(RDiv(RSub(y, cy), distance))>>

\* Maze.isdisplayed
isdisplayed(x, y) ==
    /\ MIDDLE - HalfW <= x /\ x <= MIDDLE + HalfW
    /\ MIDDLE - HalfH <= y /\ y <= MIDDLE + HalfH

\* Maze.get_distance
get_distance(x, y) == RSqrt(RSum2(RSub(R(HeroX), x), RSub(R(HeroY), y)))

\* The wall sets Maze.new_cell can draw: sample(ADJACENTS, 2) plus choice(ADJACENTS)
WallSets == {ws \in SUBSET (1..4) : Cardinality(ws) \in {2, 3}}

\* draw_bit: is grid (i, j) of the cell at (x, y) inside the bit (dx, dy)?
InBit(x, y, dx, dy, i, j) ==
    LET startx == x + CELL_NODES(dx)
        starty == y + CELL_NODES(dy)
        width  == IF dx # 0 THEN ROAD_WIDTH ELSE WALL_WIDTH
        height == IF dy # 0 THEN ROAD_WIDTH ELSE WALL_WIDTH
    IN  /\ startx <= i /\ i < startx + width
        /\ starty <= j /\ j < starty + height

\* Maze.new_cell(x, y) with the drawn wall set ws (indices into ADJACENTS)
new_cell(m, x, y, ws) ==
    LET cx == x * CELL_WIDTH
        cy == y * CELL_WIDTH
    IN  [i \in Idx |-> [j \in Idx |->
            IF InBit(cx, cy, 0, 0, i, j) THEN WALL
            ELSE IF \E k \in 1..4 : InBit(cx, cy, ADJACENTS[k][1], ADJACENTS[k][2], i, j)
                 THEN (IF \E k \in ws : InBit(cx, cy, ADJACENTS[k][1], ADJACENTS[k][2], i, j)
                       THEN WALL ELSE EMPTY)
                 ELSE m[i][j]]]

EmptyMap == [i \in Idx |-> [j \in Idx |-> EMPTY]]

(***************************************************************************)
(* characters.py: Enemy                                                    *)
(***************************************************************************)
\* Enemy.__init__ (Chameleon.__init__ adds visible = 0.0)
Enemy(f, x, y, color) ==
    [x |-> x, y |-> y, angle |-> <<1, 4>>, color |-> color,
     awake |-> FALSE, next_strike |-> RZero,
     move_speed |-> RDiv(R(f), R(ENEMY_SPEED)),
     offsetx |-> 0, offsety |-> 0,
     spin_speed |-> RDiv(R(f), R(ENEMY_HP)),
     spin_queue |-> RZero, wound |-> RZero, visible |-> RZero,
     began |-> <<>>, resc |-> <<>>]

\* new_enemy: the constructor of the drawn colour
new_enemy(f, x, y, color) == Enemy(f, x, y, color)

\* Enemy.pos
EnemyPos(e, cx, cy, f) ==
    LET p    == get_pos(cx, cy, e.x, e.y)
        step == RDiv(RMul(distance, R(ENEMY_SPEED)), R(f))
    IN  <<RAdd(p[1], RMul(R(e.offsetx), step)), RAdd(p[2], RMul(R(e.offsety), step))>>

\* Enemy.distance
EnemyDistance(e, cx, cy, f) ==
    LET p == EnemyPos(e, cx, cy, f) IN get_distance(p[1], p[2])

\* Enemy.place: the enemy moved by (x, y) grids
PlaceEnemy(e, x, y) == [e EXCEPT !.x = e.x + x, !.y = e.y + y]

\* Enemy.place: the map after the enemy e has been placed
PlaceMap(m, e) == IF e.awake THEN MapSet(m, e.x, e.y, ENEMY) ELSE m

\* Enemy.die: `self.wake` is a bound method, hence always true
DieMap(m, e) == MapSet(m, e.x, e.y, EMPTY)

\* Enemy.wake: no WALL on the scanned line between the enemy and the hero
CanWake(m, e) ==
    LET destx0 == MIDDLE
        srcx == IF IAbs(destx0 - e.x) # 1
                THEN e.x + (IF ISign(destx0 - e.x) # 0 THEN ISign(destx0 - e.x) ELSE 1)
                ELSE e.x
        desty0 == MIDDLE
        srcy == IF IAbs(desty0 - e.y) # 1
                THEN e.y + (IF ISign(desty0 - e.y) # 0 THEN ISign(desty0 - e.y) ELSE 1)
                ELSE e.y
        mm == destx0 - srcx
        nn == desty0 - srcy
        lcm == IAbs(PyFloorDiv(mm * nn, Gcd(IAbs(mm), IAbs(nn))))
        ww == PyFloorDiv(lcm, mm)
        uu == PyFloorDiv(lcm, nn)
    IN  \A i \in 0..(lcm - 1) :
            MapAt(m, srcx + PyFloorDiv(i, ww), srcy + PyFloorDiv(i, uu)) # WALL

\* an enemy that wakes whatever stands between it and the hero
WakeBlind(m, e) ==
    IF e.awake THEN <<e, m>>
    ELSE <<[e EXCEPT !.awake = TRUE,
                     !.visible = IF e.color = "Chameleon"
                                 THEN RDiv(R(1000), R(ENEMY_SPEED)) ELSE e.visible],
           MapSet(m, e.x, e.y, ENEMY)>>

\* Enemy.wake / Chameleon.wake on one enemy: <<enemy, map>>
Wake(m, e) ==
    IF e.awake THEN <<e, m>>
    ELSE IF ~CanWake(m, e) THEN <<e, m>>
    ELSE <<[e EXCEPT !.awake = TRUE,
                     !.visible = IF e.color = "Chameleon"
                                 THEN RDiv(R(1000), R(ENEMY_SPEED)) ELSE e.visible],
           MapSet(m, e.x, e.y, ENEMY)>>

\* a clone that stays on the grid it was created on
CloneInPlace(p, other) ==
    [other EXCEPT !.angle = p.angle, !.awake = TRUE,
                  !.next_strike = p.next_strike,
                  !.offsetx = p.offsetx, !.offsety = p.offsety,
                  !.spin_queue = p.spin_queue, !.wound = p.wound]

\* Plum.clone: other turned into a clone of the Plum p
Clone(p, other) ==
    [other EXCEPT !.x = p.x, !.y = p.y, !.angle = p.angle, !.awake = TRUE,
                  !.next_strike = p.next_strike,
                  !.offsetx = p.offsetx, !.offsety = p.offsety,
                  !.spin_queue = p.spin_queue, !.wound = p.wound]

\* Enemy.hit / Chameleon.hit
Hit(e, wound) ==
    [e EXCEPT !.wound = RAdd(e.wound, wound),
              !.visible = IF e.color = "Chameleon"
                          THEN RDiv(R(1000), R(ENEMY_SPEED)) ELSE e.visible]

(***************************************************************************)
(* Maze.add_enemy                                                          *)
(***************************************************************************)
RECURSIVE RPow(_, _)
RPow(a, n) == IF n = 0 THEN R(1) ELSE RMul(a, RPow(a, n - 1))

\* len(self.enemies) < log(self.score, INIT_SCORE)
BelowQuota(n, sc) == RLt(RPow(INIT_SCORE, n), sc)

\* the visible WALL grids
VisibleWalls(m) == {c \in rangex \X rangey : m[c[1]][c[2]] = WALL}

\* a wall the loop of add_enemy skips: all four adjacent grids are WALL
Interior(m, c) ==
    \A k \in 1..4 : MapAt(m, c[1] + ADJACENTS[k][1], c[2] + ADJACENTS[k][2]) = WALL

\* every visible wall may be drawn, the ones inside a block of walls too
SpawnAnywhere(m, c) == TRUE

\* add_enemy line 142: a drawn wall with WALL on all four sides is skipped
Spawnable(m, c) == ~Interior(m, c)

\* the first n cells of a set of cells in row-major order
RECURSIVE FirstCells(_, _)
FirstCells(cs, n) ==
    IF n = 0 \/ cs = {} THEN {}
    ELSE LET c == CHOOSE c \in cs : \A o \in cs :
                      c[1] < o[1] \/ (c[1] = o[1] /\ c[2] <= o[2])
         IN  {c} \cup FirstCells(cs \ {c}, n - 1)

\* the while loop of add_enemy: the set of enemy lists it can end with.
\* A draw of an interior wall repeats the draw; with only interior walls left
\* the loop never ends (no result).
RECURSIVE AddLoop(_, _, _, _, _, _)
AddLoop(m, es, walls, plum, sc, f) ==
    IF walls = {} \/ ~BelowQuota(Len(es), sc) THEN {es}
    ELSE IF Len(es) >= MaxEnemies THEN {}
    ELSE UNION {
           LET e == new_enemy(f, c[1], c[2], col)
           IN  IF plum # <<>> /\ e.color = "Plum"
               THEN AddLoop(m, Append(es, Clone(plum[1], e)), walls, plum, sc, f)
               ELSE AddLoop(m, Append(es, e), walls \ {c}, plum, sc, f)
           : c \in FirstCells({c \in walls : Spawnable(m, c)}, SpawnSites),
             col \in SpawnColors }

\* Maze.add_enemy: the enemy lists it can leave
add_enemy(m, es, sc, f) ==
    LET plums == {i \in 1..Len(es) : es[i].color = "Plum" /\ es[i].awake}
    IN  IF plums = {} THEN AddLoop(m, es, VisibleWalls(m), <<>>, sc, f)
        ELSE UNION {AddLoop(m, es, VisibleWalls(m), <<es[i]>>, sc, f) : i \in plums}

\* the while loop of add_enemy, lines 140-143, with n enemies in the list:
\* every wall that is drawn and kept is removed, and once only walls with WALL
\* on all four sides are left below the quota, every draw is a `continue`
RECURSIVE spins(_, _, _, _)
spins(m, n, walls, sc) ==
    IF walls = {} \/ ~BelowQuota(n, sc) THEN FALSE
    ELSE LET free == {c \in walls : Spawnable(m, c)}
         IN  IF free = {} THEN TRUE
             ELSE spins(m, n + 1, walls \ {CHOOSE c \in free : TRUE}, sc)

(***************************************************************************)
(* Angles are rational multiples of pi; cos and sin are rounded to three   *)
(* decimals on multiples of pi/12 (other angles use the nearest multiple). *)
(***************************************************************************)
CosTable == <<100, 97, 87, 71, 50, 26, 0>>

\* cos(a*pi) for 0 <= a <= 1/2
CosQuadrant(a) == <<CosTable[RRound(RMul(a, R(12))) + 1], 100>>

\* a modulo 2, in [0, 2)
Mod2(a) == RSub(a, R(2 * (a[1] \div (2 * a[2]))))

\* cos(a*pi)
CosPi(a) ==
    LET t == Mod2(a)
        u == IF RLe(t, R(1)) THEN t ELSE RSub(R(2), t)
    IN  IF RLe(u, <<1, 2>>) THEN RNorm(CosQuadrant(u)[1], 100)
        ELSE RNorm(-CosQuadrant(RSub(R(1), u))[1], 100)

\* sin(a*pi)
SinPi(a) == CosPi(RSub(a, <<1, 2>>))

RECURSIVE SumSeq(_)
SumSeq(q) == IF q = <<>> THEN RZero ELSE RAdd(q[1], SumSeq(Tail(q)))

(***************************************************************************)
(* weapons.py: Bullet                                                      *)
(***************************************************************************)
\* Bullet.__init__, with (cos, sin) of its angle
Bullet(x, y, c, s, color) ==
    [x |-> x, y |-> y, cos |-> c, sin |-> s, color |-> color,
     fall_time |-> BULLET_LIFETIME]

\* Bullet.update
BulletUpdate(b, f) ==
    LET s == RDiv(RMul(distance, R(BULLET_SPEED)), R(f))
    IN  [b EXCEPT !.x = RAdd(b.x, RMul(s, b.cos)),
                  !.y = RAdd(b.y, RMul(s, b.sin)),
                  !.fall_time = RSub(b.fall_time, RDiv(R(1000), R(f)))]

\* Bullet.place
BulletPlace(b, x, y) == [b EXCEPT !.x = RAdd(b.x, x), !.y = RAdd(b.y, y)]

\* Bullet.get_distance
BulletDistance(b, x, y) == RSqrt(RSum2(RSub(b.x, x), RSub(b.y, y)))

(***************************************************************************)
(* characters.py: Hero                                                     *)
(***************************************************************************)
\* Hero.__init__
Hero(f) ==
    [angle |-> <<-3, 4>>, next_heal |-> R(-1), next_beat |-> RZero,
     next_strike |-> RZero, highness |-> RZero,
     slashing |-> FALSE, firing |-> FALSE, dead |-> FALSE,
     spin_speed |-> RDiv(R(f), R(HERO_HP)),
     spin_queue |-> RZero, wound |-> RZero, wounds |-> <<RZero>>,
     began |-> <<>>, resc |-> <<>>]

\* Hero.sides
Sides(h) == IF RLt(h.next_heal, RZero) THEN 3 ELSE 4

\* Hero.update lines 75-77: the spin speed for the frame rate f and the wound
HeroSpinSpeed(h, f) == RDiv(R(f), RSub(R(HERO_HP), RSqrt(h.wound)))

\* the spin queue left as it is when the spin speed changes
NoRescale(queue, new_speed, old_speed) == queue

\* `self.spin_queue *= self.spin_speed / old_speed`
Rescale(queue, new_speed, old_speed) == RMul(queue, RDiv(new_speed, old_speed))

\* Hero.update lines 94: a new slash starts
HeroStarts(slashing, next_strike, queue) ==
    slashing /\ RLe(next_strike, RZero)

\* healing without the lower bound
HealBelowZero(w, amount) == RSub(w, amount)

\* Hero.update lines 84-85: the wound after healing by amount
Heal(w, amount) == RMax(RSub(w, amount), RZero)

\* a spin that starts without resetting the cooldown
StrikeKept(start, strike) == strike

\* Hero.update lines 94-96: next_strike after the decrement to strike, when a
\* spin starts (start) or not
StrikeAfter(start, strike) == IF start THEN ATTACK_SPEED ELSE strike

\* Hero.update(fps); rs is the value of randsign()
HeroUpdate(h, f, rs) ==
    IF h.dead THEN [h EXCEPT !.spin_queue = RZero, !.began = <<>>, !.resc = <<>>]
    ELSE
    LET old_speed == h.spin_speed
        speed   == HeroSpinSpeed(h, f)
        q1      == Rescale(h.spin_queue, speed, old_speed)
        wounds1 == IF RLt(RDiv(RMul(R(f), ATTACK_SPEED), R(1000)), R(Len(h.wounds)))
                   THEN Tail(h.wounds) ELSE h.wounds
        heal1   == IF RLt(SumSeq(wounds1), h.next_heal) THEN R(-1) ELSE h.next_heal
        w1      == RAdd(h.wound, wounds1[Len(wounds1)])
        w2      == IF RLt(heal1, RZero)
                   THEN Heal(w1, RDiv(RDiv(R(HEAL_SPEED), speed), R(HERO_HP)))
                   ELSE w1
        wounds2 == Append(wounds1, RZero)
        beat    == IF RLe(h.next_beat, RZero)
                   THEN RMul(R(MIN_BEAT), RSub(R(2), RDiv(w2, R(HERO_HP))))
                   ELSE RSub(h.next_beat, RDiv(R(1000), R(f)))
        strike1 == RSub(h.next_strike, RDiv(R(1000), R(f)))
        sides   == IF RLt(heal1, RZero) THEN 3 ELSE 4
        full    == RDiv(R(2), R(sides))
        start   == HeroStarts(h.slashing, strike1, q1)
        strike2 == StrikeAfter(start, strike1)
        q2      == IF start THEN RMul(R(rs), speed) ELSE q1
        a1      == IF start THEN RSub(h.angle, RMul(R(sign(q2)), full)) ELSE h.angle
        spin    == RRound(q2) # 0
        a2      == IF spin THEN RAdd(a1, RDiv(RMul(R(sign(q2)), full), speed)) ELSE a1
        q3      == IF spin THEN RSub(q2, R(sign(q2))) ELSE RZero
    IN  [h EXCEPT !.spin_speed = speed, !.spin_queue = q3, !.wounds = wounds2,
                  !.next_heal = heal1, !.wound = w2, !.next_beat = beat,
                  !.next_strike = strike2, !.angle = a2,
                  \* history: the spin started and the rescaling done by this update
                  !.began = IF start
                            THEN <<[before |-> h.spin_queue, speed |-> speed, queue |-> q2,
                                    slashing |-> h.slashing, strike |-> strike1,
                                    after |-> strike2]>>
                            ELSE <<>>,
                  !.resc = <<[q0 |-> h.spin_queue, s0 |-> old_speed,
                              q1 |-> q1, s1 |-> speed]>>]

\* an aim that does not wait for the end of a spin
AimAnyTime(h, angle) ==
    LET t     == RAdd(RSub(angle, h.angle), R(1))
        delta == RSub(Mod2(t), R(1))
        unit  == RDiv(RDiv(R(2), R(Sides(h))), h.spin_speed)
    IN  IF RLt(RAbs(delta), unit)
        THEN [h EXCEPT !.angle = angle, !.spin_queue = RZero]
        ELSE [h EXCEPT !.spin_queue = RDiv(delta, unit)]

\* Hero.update_angle(angle)
update_angle(h, angle) ==
    IF RRound(h.spin_queue) # 0 THEN h
    ELSE LET t     == RAdd(RSub(angle, h.angle), R(1))
             delta == RSub(Mod2(t), R(1))
             unit  == RDiv(RDiv(R(2), R(Sides(h))), h.spin_speed)
         IN  IF RLt(RAbs(delta), unit)
             THEN [h EXCEPT !.angle = angle, !.spin_queue = RZero]
             ELSE [h EXCEPT !.spin_queue = RDiv(delta, unit)]

\* a bullet the hero shoots at the angle a
Shot(a) == Bullet(R(HeroX), R(HeroY), CosPi(a), SinPi(a), "Aluminium")

\* Hero.shots lines 130-134: the bullets shot at the corners in cs
RECURSIVE Spread(_, _)
Spread(h, cs) ==
    IF cs = {} THEN <<>>
    ELSE LET c == CHOOSE c \in cs : \A o \in cs : c <= o
         IN  <<Shot(RAdd(h.angle, RDiv(R(2 * c), R(Sides(h)))))>> \o Spread(h, cs \ {c})

\* Hero.shots: the pairs <<hero afterwards, bullets shot>> it can return
Shots(h) ==
    IF ~h.firing \/ h.slashing \/ RLt(RZero, h.next_strike) THEN {<<h, <<>> >>}
    ELSE
    LET h1 == [h EXCEPT !.next_strike = ATTACK_SPEED]
        \* randrange(int(highness + 1)) can be nonzero
        high == RTrunc(RAdd(h.highness, R(1))) >= 2
        h2 == [h1 EXCEPT !.highness = RSub(h.highness, R(1))]
    IN  {<<h1, <<Shot(h.angle)>> >>}
        \cup (IF high
              THEN {<<h2, Spread(h, cs)>> : cs \in (SUBSET (0..(Sides(h) - 1))) \ {{}}}
              ELSE {})

\* the weight grows past MAXW
WeighNoCap(w, wound) == RAdd(w, wound)

\* Maze.hit_hero lines 260-261: the weight of the colour after a hit
Weigh(w, wound) == IF RLt(RAdd(w, wound), R(MAXW)) THEN RAdd(w, wound) ELSE w

\* Maze.hit_hero(wound, color) on env = [hero, enemy_weights, next_move];
\* lucky is the outcome of `uniform(0, sum(weights)) < weights[color]`
hit_hero(env, wound, color, lucky) ==
    LET h  == env.hero
        w1 == [env.enemy_weights EXCEPT ![color] = Weigh(@, wound)]
        orange == color = "Orange"
        effect == ~orange /\ lucky
        heal   == IF orange THEN RAbs(RMul(h.next_heal, RSub(R(1), wound)))
                  ELSE IF effect THEN R(-1) ELSE h.next_heal
        high   == IF effect /\ color = "Chocolate" THEN RAdd(h.highness, wound)
                  ELSE h.highness
        nm     == IF effect /\ color = "SkyBlue"
                  THEN RAdd(RMax(env.next_move, RZero), RMul(wound, R(1000)))
                  ELSE env.next_move
        wd     == IF effect /\ color \in {"Butter", "ScarletRed"} THEN RMul(wound, R(ENEMY_HP))
                  ELSE IF effect /\ color \in {"Chocolate", "SkyBlue"} THEN RZero
                  ELSE wound
        n      == Len(h.wounds)
        ws     == IF ~RIsZero(wd) /\ RLt(SumSeq(h.wounds), R(MAX_WOUND))
                  THEN [h.wounds EXCEPT ![n] = RAdd(@, wd)]
                  ELSE h.wounds
    IN  [hero |-> [h EXCEPT !.next_heal = heal, !.highness = high, !.wounds = ws],
         enemy_weights |-> w1, next_move |-> nm]

(***************************************************************************)
(* Maze.set_step and Game.move                                             *)
(***************************************************************************)
Around(c) == {<<c[1] + a, c[2] + b>> : a \in -1..1, b \in -1..1} \ {c}

\* set_step lines 483-487: expanding the grid c reads self.map[i][j] for the
\* eight grids around it; an index outside -GridSize..GridSize-1 raises
\* IndexError
OnEdge(c) == \E k \in 1..2 : c[k] = GridSize - 1 \/ c[k] = -GridSize

\* the forest fire of set_step, one distance at a time: the grids of the
\* frontier are popped in any order, a grid within reach of MIDDLE ends the
\* search, every other one is expanded. The result is the steps the search
\* can end with (none when it fails) and whether it can raise IndexError.
\* a search that takes any EMPTY grid around the hero
Spark(m, frontier, visited) ==
    [steps |-> {<<MIDDLE - c[1], MIDDLE - c[2]>> :
                  c \in {n \in AROUND_HERO : MapAt(m, n[1], n[2]) = EMPTY}},
     raises |-> FALSE]

RECURSIVE Fire(_, _, _)
Fire(m, frontier, visited) ==
    IF frontier = {} THEN [steps |-> {}, raises |-> FALSE]
    ELSE LET near == {c \in frontier :
                        (MIDDLE - c[1]) * (MIDDLE - c[1])
                        + (MIDDLE - c[2]) * (MIDDLE - c[2]) <= 2}
             edge == {c \in frontier \ near : OnEdge(c)}
             seen == visited \cup frontier
         IN  IF near # {}
             THEN [steps |-> {<<MIDDLE - c[1], MIDDLE - c[2]>> : c \in near},
                   raises |-> edge # {}]
             ELSE IF edge # {} THEN [steps |-> {}, raises |-> TRUE]
             ELSE Fire(m, {n \in UNION {Around(c) : c \in frontier} :
                              MapAt(m, n[1], n[2]) = EMPTY} \ seen, seen)

\* set_step lines 453-470: the search is skipped
Skips(m, dx, dy, sx, sy, velx, vely) ==
    \/ sx # 0 \/ (sy # 0 /\ RIsZero(velx) /\ RIsZero(vely))
    \/ MapAt(m, dx, dy) # EMPTY

\* Maze.set_step(): the pairs <<stepx, stepy>> it can leave
set_step(m, dx, dy, sx, sy, velx, vely) ==
    IF sx # 0 \/ (sy # 0 /\ RIsZero(velx) /\ RIsZero(vely))
    THEN LET x == MIDDLE - sx
             y == MIDDLE - sy
         IN  IF sx # 0 /\ sy = 0
             THEN LET nextx == x - sx
                      n == MapAt(m, x, y - 1) = EMPTY /\ MapAt(m, nextx, y - 1) = EMPTY
                      s == MapAt(m, x, y + 1) = EMPTY /\ MapAt(m, nextx, y + 1) = EMPTY
                  IN  {<<sx, (IF n THEN 1 ELSE 0) - (IF s THEN 1 ELSE 0)>>}
             ELSE IF sx = 0 /\ sy # 0
             THEN LET nexty == y - sy
                      w == MapAt(m, x - 1, y) = EMPTY /\ MapAt(m, x - 1, nexty) = EMPTY
                      e == MapAt(m, x + 1, y) = EMPTY /\ MapAt(m, x + 1, nexty) = EMPTY
                  IN  {<<(IF w THEN 1 ELSE 0) - (IF e THEN 1 ELSE 0), sy>>}
             ELSE {<<sx, sy>>}
    ELSE IF MapAt(m, dx, dy) # EMPTY THEN {<<0, 0>>}
    ELSE LET found == Fire(m, {<<dx, dy>>}, {})
         IN  IF found.steps # {} THEN found.steps
             ELSE IF found.raises THEN {} ELSE {<<0, 0>>}

\* Game.move, one axis: the new velocity for the direction x
MoveAxis(v, x, stunned, velocity, accel) ==
    IF stunned \/ x = 0
    THEN LET v1 == RSub(v, RMul(R(sign(v)), accel))
         IN  IF RLt(RAbs(v1), RMul(accel, R(2))) THEN RZero ELSE v1
    ELSE IF x * sign(v) < 0 THEN RAdd(v, RMul(R(x * 2), accel))
    ELSE LET v1 == RAdd(v, RMul(R(x), accel))
         IN  IF RLt(velocity, RAbs(v1)) THEN RMul(R(x), velocity) ELSE v1

(***************************************************************************)
(* Maze.is_valid_move                                                      *)
(***************************************************************************)
\* the walls do not stop the hero, the enemies do
MoveThroughWalls(m, es, cx, cy, velx, vely) ==
    LET herox == RSub(R(HeroX), velx)
        heroy == RSub(R(HeroY), vely)
        far(p) == RMax(RAbs(RSub(herox, p[1])), RAbs(RSub(heroy, p[2])))
        foe   == \E i \in 1..Len(es) :
                    RLt(RMul(far(get_pos(cx, cy, es[i].x, es[i].y)), R(2)), distance)
    IN  IF foe THEN RZero
        ELSE IF ~RIsZero(velx) THEN velx ELSE vely

is_valid_move(m, es, cx, cy, velx, vely) ==
    LET d     == RAdd(RDiv(distance, R(2)), HeroR)
        herox == RSub(R(HeroX), velx)
        heroy == RSub(R(HeroY), vely)
        dx    == sign(velx)
        dy    == sign(vely)
        far(p) == RMax(RAbs(RSub(herox, p[1])), RAbs(RSub(heroy, p[2])))
        wall  == \E gridx \in (MIDDLE - dx - 1)..(MIDDLE - dx + 1),
                    gridy \in (MIDDLE - dy - 1)..(MIDDLE - dy + 1) :
                    /\ RLt(far(get_pos(cx, cy, gridx, gridy)), d)
                    /\ MapAt(m, gridx, gridy) = WALL
        foe   == \E i \in 1..Len(es) :
                    RLt(RMul(far(get_pos(cx, cy, es[i].x, es[i].y)), R(2)), distance)
    IN  IF wall \/ foe THEN RZero
        ELSE IF ~RIsZero(velx) THEN velx ELSE vely

(***************************************************************************)
(* Initial states: the state Maze.__init__ leaves, and states of a game in *)
(* progress (enemies awake next to the hero, a wounded hero, a raised      *)
(* score)                                                                  *)
(***************************************************************************)
Cells == (0..(MAZE_SIZE - 1)) \X (0..(MAZE_SIZE - 1))

\* the maze with every cell drawn with the wall set ws
RECURSIVE DrawCells(_, _, _)
DrawCells(m, cs, ws) ==
    IF cs = {} THEN m
    ELSE LET c == CHOOSE c \in cs : TRUE
         IN  DrawCells(new_cell(m, c[1], c[2], ws), cs \ {c}, ws)

\* the wall sets the initial mazes are drawn with
InitWallSets == {{1, 2}, {2, 3, 4}}

\* the mazes Maze.__init__ and Maze.reinit can draw, before the hero is tagged
NewMaps == {DrawCells(EmptyMap, Cells, ws) : ws \in InitWallSets}

InitWeights == [c \in ENEMIES |-> R(MINW)]

\* an enemy of a game in progress: awake at grid (x, y) with the given wound
Foe(f, x, y, color, wound) ==
    [Enemy(f, x, y, color) EXCEPT !.awake = TRUE, !.wound = wound,
        !.visible = IF color = "Chameleon" THEN RDiv(R(1000), R(ENEMY_SPEED)) ELSE RZero]

\* the hero of a game in progress: after an update at the wound w, and hit
\* since then for the wound `pending`
Wounded(f, w, slashing, pending) ==
    LET h == HeroUpdate([Hero(f) EXCEPT !.wound = w, !.wounds = <<RZero, RZero, RZero>>,
                                        !.slashing = slashing,
                                        !.next_strike = RDiv(R(1000), R(f))], f, 1)
    IN  [h EXCEPT !.wounds[Len(h.wounds)] = pending]

\* a bullet in flight: at (x, y) pixels, flying down the window, with
\* fall_time milliseconds left
Flying(x, y, color, fall_time) ==
    [Bullet(R(x), R(y), RZero, R(1), color) EXCEPT !.fall_time = R(fall_time)]

\* the hero h after a bullet of Agent Orange has hit him for the wound w
Oranged(h, w) ==
    hit_hero([hero |-> h, enemy_weights |-> InitWeights, next_move |-> RZero],
             w, "Orange", FALSE).hero

\* games in progress (the last one after many kills, the enemies all shot):
\* <<awake enemies, hero, score, centerx, bullets, enemy_weights, vx>>
Scenes(f) ==
    { <<<<Foe(f, MIDDLE + 1, MIDDLE, "Plum", RZero)>>, Hero(f),
        RAdd(INIT_SCORE, <<13, 4>>), R(HeroX - 2), <<>>, InitWeights, RZero>>,
      <<<<Foe(f, MIDDLE, MIDDLE + 1, "ScarletRed", <<1, 10>>)>>,
        Wounded(f, RZero, TRUE, RZero), INIT_SCORE, R(HeroX),
        <<Flying(HeroX, HeroY - 14, "Butter", 300)>>, InitWeights, RZero>>,
      <<<<[Foe(f, MIDDLE - 1, MIDDLE, "Butter", <<14, 5>>) EXCEPT !.spin_queue = <<7, 3>>]>>,
        Wounded(f, <<24, 5>>, TRUE, <<1, 2>>), INIT_SCORE, R(HeroX), <<>>,
        InitWeights, RZero>>,
      <<<<Foe(f, MIDDLE + 2, MIDDLE, "Orange", <<11, 5>>)>>,
        Wounded(f, R(1), FALSE, RZero), INIT_SCORE, R(HeroX + 3),
        <<Flying(HeroX - 12, HeroY - 16, "Orange", 100)>>, InitWeights, R(4)>>,
      <<<<>>, Oranged(Wounded(f, R(1), TRUE, RZero), <<1, 2>>), INIT_SCORE, R(HeroX),
        <<Flying(HeroX, HeroY - 14, "Orange", 300)>>,
        [InitWeights EXCEPT !["Orange"] = <<71, 2>>], RZero>>,
      <<<<>>, [Oranged(Wounded(f, R(2), FALSE, RZero), R(1))
                 EXCEPT !.wounds = <<RZero, RZero, RZero, RZero>>],
        INIT_SCORE, R(HeroX), <<>>,
        [InitWeights EXCEPT !["Orange"] = Weigh(@, R(1))], RZero>>,
      <<<<>>, Hero(f), R(50), R(HeroX + 3), <<>>, InitWeights, R(4)>> }

RECURSIVE TagEnemies(_, _)
TagEnemies(m, es) ==
    IF es = <<>> THEN m ELSE TagEnemies(PlaceMap(m, es[1]), Tail(es))

\* before a call of Maze.update, no destination, no timer running
InitClock ==
    /\ pc = "update" /\ crashed = ""
    /\ destx = MIDDLE /\ desty = MIDDLE /\ stepx = 0 /\ stepy = 0
    /\ next_move = RZero /\ glitch = RZero /\ next_slashfx = RZero
    /\ idx = 0 /\ died = <<>> /\ asked = <<RZero, RZero>>

InitCommon ==
    /\ InitClock /\ ticks = 0 /\ fps = 10
    /\ centery = RDiv(R(WinH), R(2))
    /\ vy = RZero /\ rotatex = 0 /\ rotatey = 0

\* Maze.__init__
InitNew ==
    /\ InitCommon
    /\ \E m0 \in NewMaps :
         /\ enemies \in add_enemy(m0, <<>>, INIT_SCORE, 10)
         /\ map = MapSet(m0, MIDDLE, MIDDLE, HERO)
    /\ hero = Hero(10)
    /\ score = INIT_SCORE
    /\ centerx = RDiv(R(WinW), R(2))
    /\ vx = RZero
    /\ bullets = <<>>
    /\ enemy_weights = InitWeights

\* the game in the middle of the scene sc
Scene(sc) ==
    /\ InitCommon
    /\ enemies = sc[1]
    /\ map = TagEnemies(MapSet(DrawCells(EmptyMap, Cells, {1, 2}), MIDDLE, MIDDLE, HERO),
                        sc[1])
    /\ hero = sc[2]
    /\ score = sc[3]
    /\ centerx = sc[4]
    /\ bullets = sc[5]
    /\ enemy_weights = sc[6]
    /\ vx = sc[7]

InitScene == \E sc \in Scenes(10) : Scene(sc)

\* games that have scrolled: <<rotatex, rotatey, vx, vy, fps>>, an axis one
\* grid short of a whole cell and the hero moving on at full speed
\* (distance * HERO_SPEED / fps a frame)
Scrolls ==
    { <<CELL_WIDTH - 1, 0, R(4), RZero, 10>>,
      <<0, 1 - CELL_WIDTH, RZero, R(-4), 10>>,
      <<CELL_WIDTH - 1, CELL_WIDTH - 1, R(4), R(4), 10>>,
      <<CELL_WIDTH - 1, 0, R(8), RZero, 5>> }

\* the game after the scrolls s, one call of Maze.update left to explore: the
\* maze rotated, the hero three pixels off the middle of the window
Scrolled(s) ==
    /\ InitClock /\ ticks = MaxTicks - 1 /\ fps = s[5]
    /\ rotatex = s[1] /\ rotatey = s[2]
    /\ vx = s[3] /\ vy = s[4]
    /\ centerx = RAdd(R(HeroX), RMul(R(sign(s[3])), R(3)))
    /\ centery = RAdd(R(HeroY), RMul(R(sign(s[4])), R(3)))
    /\ \E m0 \in {RotateY(RotateX(DrawCells(EmptyMap, Cells, {1, 2}), s[1]), s[2])} :
         /\ map = MapSet(m0, MIDDLE, MIDDLE, HERO)
         /\ enemies = CHOOSE es \in add_enemy(m0, <<>>, INIT_SCORE, 10) : TRUE
    /\ hero = Hero(10)
    /\ score = INIT_SCORE
    /\ bullets = <<>>
    /\ enemy_weights = InitWeights

InitScrolled == \E s \in Scrolls : Scrolled(s)

\* Game.__init__ line 130: freeze and point to NW
Freeze == <<0, 0, <<-3, 4>>, FALSE, FALSE>>

\* Game.__init__ lines 131-132: no server, no thread
Local ==
    /\ server = FALSE /\ sockinp = <<>> /\ tpc = "" /\ clients = 0 /\ replies = 0
    /\ buf = <<>> /\ data = <<>> /\ sent = <<>>

Init == (InitNew \/ InitScene \/ InitScrolled) /\ Local

(***************************************************************************)
(* Maze.update, one action per statement group                             *)
(***************************************************************************)
\* Maze.update without `if not self.hero.dead`
NextPhaseNoSkip(p, dead, n) ==
    CASE p = "update"  -> "timers"
      [] p = "timers"  -> "rotate"
      [] p = "rotate"  -> "wake"
      [] p = "wake"    -> IF n > 0 THEN "enemies" ELSE "bullets"
      [] p = "enemies" -> "bullets"
      [] p = "bullets" -> "hero"
      [] p = "hero"    -> "slash"
      [] p = "slash"   -> "lose"
      [] OTHER         -> "control"

\* the statement group of Maze.update that follows the group p; `dead` is
\* hero.dead and n the number of enemies
NextPhase(p, dead, n) ==
    CASE p = "update"  -> "timers"
      [] p = "timers"  -> "rotate"
      [] p = "rotate"  -> "wake"
      [] p = "wake"    -> IF n > 0 THEN "enemies" ELSE "bullets"
      [] p = "enemies" -> "bullets"
      [] p = "bullets" -> IF dead THEN "control" ELSE "hero"
      [] p = "hero"    -> "slash"
      [] p = "slash"   -> "lose"
      [] OTHER         -> "control"

Running == crashed = ""

\* Maze.update lines 406-410: fps, then the scroll of each axis
ScrollStep ==
    /\ Running /\ pc = "update" /\ ticks < MaxTicks
    /\ \E f \in FpsSet :
         LET vx1 == is_valid_move(map, enemies, centerx, centery, vx, RZero)
             cx1 == RAdd(centerx, vx1)
             vy1 == is_valid_move(map, enemies, cx1, centery, RZero, vy)
         IN  /\ fps' = f
             /\ vx' = vx1 /\ centerx' = cx1
             /\ vy' = vy1 /\ centery' = RAdd(centery, vy1)
    /\ ticks' = ticks + 1
    /\ pc' = NextPhase(pc, hero.dead, Len(enemies))
    /\ died' = <<>>
    /\ UNCHANGED <<server, crashed, map, rotatex, rotatey, destx, desty, stepx, stepy,
                   next_move, glitch, next_slashfx, score, enemy_weights, enemies,
                   bullets, hero, idx>>
    /\ asked' = <<vx, vy>>
    /\ UNCHANGED <<sockinp, tpc, clients, replies, buf, data, sent>>

\* Maze.update lines 412-415
TimersStep ==
    /\ Running /\ pc = "timers"
    /\ next_move' = RSub(next_move, RDiv(R(1000), R(fps)))
    /\ glitch' = RSub(glitch, RDiv(R(1000), R(fps)))
    /\ next_slashfx' = RSub(next_slashfx, RDiv(R(1000), R(fps)))
    /\ pc' = NextPhase(pc, hero.dead, Len(enemies))
    /\ UNCHANGED <<ticks, server, crashed, fps, map, centerx, centery, vx, vy, rotatex,
                   rotatey, destx, desty, stepx, stepy, score, enemy_weights, enemies,
                   bullets, hero, idx, died>>
    /\ UNCHANGED <<asked, sockinp, tpc, clients, replies, buf, data, sent>>

\* every removed enemy counted as ENEMY_HP, whatever its wound
GainFlat(sc, e) == RAdd(sc, R(ENEMY_HP))

\* `self.score += enemy.wound` (maze.py lines 230, 294 and 325)
Gain(sc, e) == RAdd(sc, e.wound)

\* Maze.rotate lines 208-210: the tags of the enemies are cleared
RECURSIVE Untag(_, _)
Untag(m, es) ==
    IF es = <<>> THEN m
    ELSE Untag(IF MapAt(m, es[1].x, es[1].y) = ENEMY
               THEN MapSet(m, es[1].x, es[1].y, EMPTY) ELSE m, Tail(es))

\* Maze.rotate lines 226-233: every enemy is placed, the ones off the display
\* die; r = [map, kept, dead, score]
RECURSIVE Respawn(_, _, _, _)
Respawn(r, es, x, y) ==
    IF es = <<>> THEN r
    ELSE LET e  == PlaceEnemy(es[1], x, y)
             m1 == PlaceMap(r.map, e)
         IN  IF ~isdisplayed(e.x, e.y)
             THEN Respawn([map |-> DieMap(m1, e), kept |-> r.kept,
                           dead |-> Append(r.dead, e),
                           score |-> Gain(r.score, e)], Tail(es), x, y)
             ELSE Respawn([r EXCEPT !.map = m1, !.kept = Append(r.kept, e)],
                          Tail(es), x, y)

\* deque.rotate(n) of the first CELL_WIDTH inner deques
RotateCols(m, n) ==
    [i \in Idx |-> IF i < CELL_WIDTH
                   THEN [j \in Idx |-> m[i][(j - n) % GridSize]] ELSE m[i]]

\* new_cell(0, i) for every i, with the wall sets ws[i]
RECURSIVE NewColumn(_, _, _)
NewColumn(m, ws, i) ==
    IF i = MAZE_SIZE THEN m ELSE NewColumn(new_cell(m, 0, i, ws[i]), ws, i + 1)

\* new_cell(i, 0) for every i, with the wall sets ws[i]
RECURSIVE NewRow(_, _, _)
NewRow(m, ws, i) ==
    IF i = MAZE_SIZE THEN m ELSE NewRow(new_cell(m, i, 0, ws[i]), ws, i + 1)

\* the wall sets new cells are drawn with
Draws == [0..(MAZE_SIZE - 1) -> InitWallSets]

\* the regeneration without `self.rotatex = 0` and `self.rotatey = 0`
RegenerateOn(m, rx, ry, wx, wy) ==
    LET m1  == IF IAbs(rx) = CELL_WIDTH
               THEN RotateCols(NewColumn(RotateCols(m, -ry), wx, 0), ry) ELSE m
        m2  == IF IAbs(ry) = CELL_WIDTH
               THEN RotateX(NewRow(RotateX(m1, -rx), wy, 0), rx) ELSE m1
    IN  <<m2, rx, ry>>

\* Maze.rotate lines 240-250: <<map, rotatex, rotatey>> after the regeneration
Regenerate(m, rx, ry, wx, wy) ==
    LET rx1 == IF IAbs(rx) = CELL_WIDTH THEN 0 ELSE rx
        m1  == IF IAbs(rx) = CELL_WIDTH
               THEN RotateCols(NewColumn(RotateCols(m, -ry), wx, 0), ry) ELSE m
        ry1 == IF IAbs(ry) = CELL_WIDTH THEN 0 ELSE ry
        m2  == IF IAbs(ry) = CELL_WIDTH
               THEN RotateX(NewRow(RotateX(m1, -rx1), wy, 0), rx1) ELSE m1
    IN  <<m2, rx1, ry1>>

\* Maze.rotate lines 205-206: the grids to scroll by, <<x, y>>
Scroll ==
    <<RTrunc(RDiv(RMul(RSub(centerx, R(HeroX)), R(2)), distance)),
      RTrunc(RDiv(RMul(RSub(centery, R(HeroY)), R(2)), distance))>>

\* Maze.rotate lines 208-219: the map with the enemies' tags cleared, rotated
\* and the hero tagged again
Turned ==
    MapSet(RotateY(RotateX(MapSet(Untag(map, enemies), MIDDLE, MIDDLE, EMPTY),
                           Scroll[1]), Scroll[2]),
           MIDDLE, MIDDLE, HERO)

\* Maze.rotate lines 226-233: the map, the enemies and the score before
\* add_enemy and the regeneration
Shifted ==
    Respawn([map |-> Turned, kept |-> <<>>, dead |-> <<>>, score |-> score],
            enemies, Scroll[1], Scroll[2])

\* Maze.rotate; the call of add_enemy on line 234 may never return
RotateStep ==
    /\ Running /\ pc = "rotate"
    /\ LET x == Scroll[1]
           y == Scroll[2]
       IN  IF x = 0 /\ y = 0
           THEN /\ pc' = NextPhase(pc, hero.dead, Len(enemies))
                /\ UNCHANGED <<map, centerx, centery, rotatex, rotatey, destx, desty,
                               stepx, stepy, score, enemies, died, crashed>>
           ELSE
           LET moved == MapAt(Turned, destx, desty) # HERO
               r  == Shifted
           IN  \/ /\ centerx' = RSub(centerx, RMul(R(x), distance))
                  /\ centery' = RSub(centery, RMul(R(y), distance))
                  /\ destx' = IF moved THEN destx + x ELSE destx
                  /\ desty' = IF moved THEN desty + y ELSE desty
                  /\ stepx' = 0 /\ stepy' = 0
                  /\ score' = r.score
                  /\ died' = r.dead
                  /\ enemies' \in add_enemy(r.map, r.kept, r.score, fps)
                  /\ IF IAbs(rotatex + x) = CELL_WIDTH \/ IAbs(rotatey + y) = CELL_WIDTH
                     THEN \E wx \in Draws, wy \in Draws :
                            LET g == Regenerate(r.map, rotatex + x, rotatey + y, wx, wy)
                            IN  map' = g[1] /\ rotatex' = g[2] /\ rotatey' = g[3]
                     ELSE /\ map' = r.map
                          /\ rotatex' = rotatex + x /\ rotatey' = rotatey + y
                  /\ pc' = NextPhase(pc, hero.dead, Len(enemies'))
                  /\ crashed' = crashed
               \/ /\ spins(r.map, Len(r.kept), VisibleWalls(r.map), r.score)
                  /\ crashed' = "Hang"
                  /\ UNCHANGED <<pc, map, centerx, centery, rotatex, rotatey, destx,
                                 desty, stepx, stepy, score, enemies, died>>
    /\ UNCHANGED <<ticks, server, fps, vx, vy, next_move, glitch, next_slashfx,
                   enemy_weights, bullets, hero, idx>>
    /\ UNCHANGED <<asked, sockinp, tpc, clients, replies, buf, data, sent>>

\* Maze.update lines 418-420: wake attempts, in list order; <<enemies, map>>
RECURSIVE WakeAll(_, _, _)
WakeAll(m, es, done) ==
    IF es = <<>> THEN <<done, m>>
    ELSE LET w == Wake(m, es[1])
         IN  WakeAll(w[2], Tail(es), Append(done, w[1]))

WakeStep ==
    /\ Running /\ pc = "wake"
    /\ IF ~RIsZero(vx) \/ ~RIsZero(vy) \/ hero.firing \/ hero.slashing
       THEN LET w == WakeAll(map, enemies, <<>>)
            IN  /\ enemies' = w[1]
                /\ map' = w[2]
                /\ bullets' = [i \in 1..Len(bullets) |-> BulletPlace(bullets[i], vx, vy)]
       ELSE UNCHANGED <<enemies, map, bullets>>
    /\ pc' = NextPhase(pc, hero.dead, Len(enemies))
    /\ idx' = 1
    /\ died' = <<>>
    /\ UNCHANGED <<ticks, server, crashed, fps, centerx, centery, vx, vy, rotatex,
                   rotatey, destx, desty, stepx, stepy, next_move, glitch, next_slashfx,
                   score, enemy_weights, hero>>
    /\ UNCHANGED <<asked, sockinp, tpc, clients, replies, buf, data, sent>>

(***************************************************************************)
(* Enemy.update                                                            *)
(***************************************************************************)
\* Enemy.get_angle() + pi as <<cos, sin>>: the direction toward the hero
Toward(p) ==
    LET d == get_distance(p[1], p[2])
    IN  IF RIsZero(d) THEN <<R(-1), RZero>>
        ELSE <<RDiv(RSub(R(HeroX), p[1]), d), RDiv(RSub(R(HeroY), p[2]), d)>>

\* Enemy.fire / ScarletRed.fire: whether the enemy can fire (when the
\* randrange draw is 0)
CanFire(e, h, cx, cy, f) ==
    /\ e.color # "ScarletRed"
    /\ ~h.dead
    /\ ~RLt(RMul(R(FIRANGE), distance), EnemyDistance(e, cx, cy, f))
    /\ ~RLt(RZero, e.next_strike)
    /\ <<e.x, e.y>> \notin AROUND_HERO
    /\ e.offsetx = 0 /\ e.offsety = 0

\* the enemy after it has fired, and the bullet
Fired(e, cx, cy, f) ==
    LET p == EnemyPos(e, cx, cy, f)
        t == Toward(p)
    IN  [e |-> [e EXCEPT !.next_strike = ATTACK_SPEED],
         shot |-> <<Bullet(p[1], p[2], t[1], t[2], e.color)>>]

\* the speed argument of Enemy.move (ScarletRed.move)
MoveSpeed(e) == IF e.color = "ScarletRed" THEN RMul(R(ENEMY_SPEED), SQRT2)
                ELSE R(ENEMY_SPEED)

\* the directions Enemy.move tries, for every shuffle and choice
Directions(e, dead) ==
    LET a == <<ISign(MIDDLE - e.x), 0>>
        b == <<0, ISign(MIDDLE - e.y)>>
    IN  IF dead THEN {<<ADJACENTS[k]>> : k \in 1..4}
        ELSE {<<a, b, ADJACENTS[k]>> : k \in 1..4}
             \cup {<<b, a, ADJACENTS[k]>> : k \in 1..4}

\* the first direction of ds with an EMPTY grid, <<>> when there is none
RECURSIVE FirstFree(_, _, _)
FirstFree(m, e, ds) ==
    IF ds = <<>> THEN <<>>
    ELSE LET d == ds[1]
         IN  IF (d[1] # 0 \/ d[2] # 0) /\ MapAt(m, e.x + d[1], e.y + d[2]) = EMPTY
             THEN <<d>> ELSE FirstFree(m, e, Tail(ds))

\* Enemy.move: the outcomes [e, map, moved]
Move(e, m, dead, f) ==
    IF e.offsetx # 0
    THEN {[e |-> [e EXCEPT !.offsetx = e.offsetx - ISign(e.offsetx)],
           map |-> m, moved |-> TRUE]}
    ELSE IF e.offsety # 0
    THEN {[e |-> [e EXCEPT !.offsety = e.offsety - ISign(e.offsety)],
           map |-> m, moved |-> TRUE]}
    ELSE IF RLt(RZero, e.next_strike) THEN {[e |-> e, map |-> m, moved |-> FALSE]}
    ELSE LET ms == RDiv(R(f), MoveSpeed(e))
             e1 == [e EXCEPT !.move_speed = ms]
         IN  { LET d == FirstFree(m, e1, ds)
               IN  IF d = <<>> THEN [e |-> e1, map |-> m, moved |-> FALSE]
                   ELSE LET e2 == PlaceEnemy(
                                    [e1 EXCEPT
                                       !.offsetx = RRound(RMul(R(d[1][1]), RSub(R(1), ms))),
                                       !.offsety = RRound(RMul(R(d[1][2]), RSub(R(1), ms)))],
                                    d[1][1], d[1][2])
                        IN  [e |-> e2,
                             map |-> PlaceMap(MapSet(m, e.x, e.y, EMPTY), e2),
                             moved |-> TRUE]
               : ds \in Directions(e1, dead) }

\* an update that ignores the spin in progress
EnemyIdleAlways(queue) == TRUE

\* Enemy.update line 311: `not self.spin_queue`
EnemyIdle(queue) == RIsZero(queue)

\* a spin that counts down without turning the enemy
SpinInPlace(e) ==
    IF RRound(e.spin_queue) # 0
    THEN [e EXCEPT !.spin_queue = RSub(e.spin_queue, R(sign(e.spin_queue)))]
    ELSE [e EXCEPT !.angle = <<1, 4>>, !.spin_queue = RZero]

\* Enemy.update lines 315-319: the spin advances or ends
Spin(e) ==
    IF RRound(e.spin_queue) # 0
    THEN [e EXCEPT !.angle = RAdd(e.angle,
                                  RDiv(RMul(R(sign(e.spin_queue)), <<1, 2>>), e.spin_speed)),
                   !.spin_queue = RSub(e.spin_queue, R(sign(e.spin_queue)))]
    ELSE [e EXCEPT !.angle = <<1, 4>>, !.spin_queue = RZero]

\* Enemy.update / Chameleon.update: the outcomes [e, map, shot]
EnemyUpdate(e, m, h, cx, cy, f) ==
    IF ~e.awake THEN {[e |-> e, map |-> m, shot |-> <<>>]}
    ELSE
    LET speed == RDiv(R(f), R(ENEMY_HP))
        q1    == Rescale(e.spin_queue, speed, e.spin_speed)
        e1    == [e EXCEPT !.spin_speed = speed, !.spin_queue = q1,
                           !.next_strike = RSub(e.next_strike, RDiv(R(1000), R(f))),
                           !.began = <<>>,
                           !.resc = <<[q0 |-> e.spin_queue, s0 |-> e.spin_speed,
                                       q1 |-> q1, s1 |-> speed]>>]
        fired == IF CanFire(e1, h, cx, cy, f)
                 THEN {[e |-> Fired(e1, cx, cy, f).e, map |-> m,
                        shot |-> Fired(e1, cx, cy, f).shot]}
                 ELSE {}
        moves == Move(e1, m, h.dead, f)
        walked == {[e |-> r.e, map |-> r.map, shot |-> <<>>] : r \in {o \in moves : o.moved}}
        begun == UNION {
                   {[e |-> [r.e EXCEPT !.spin_queue = RMul(R(rs), speed),
                                      !.began = <<[before |-> e.spin_queue, speed |-> speed,
                                                   queue |-> RMul(R(rs), speed),
                                                   strike |-> e1.next_strike,
                                                   after |-> r.e.next_strike]>>],
                     map |-> r.map, shot |-> <<>>] : rs \in {-1, 1}}
                   : r \in {o \in moves : ~o.moved} }
        acts  == IF EnemyIdle(q1) THEN fired \cup walked \cup begun
                 ELSE {[e |-> e1, map |-> m, shot |-> <<>>]}
    IN  { [r EXCEPT !.e = LET s == Spin(r.e)
                          IN  IF s.color = "Chameleon"
                              THEN [s EXCEPT !.visible = RSub(s.visible, RDiv(R(1000), R(f)))]
                              ELSE s]
          : r \in acts }

\* `for enemy in self.enemies: enemy.update()`, one enemy per step
EnemyStep ==
    /\ Running /\ pc = "enemies" /\ idx \in 1..Len(enemies)
    /\ \E r \in EnemyUpdate(enemies[idx], map, hero, centerx, centery, fps) :
         /\ Len(bullets) + Len(r.shot) <= MaxBullets
         /\ enemies' = [enemies EXCEPT ![idx] = r.e]
         /\ map' = r.map
         /\ bullets' = bullets \o r.shot
    /\ idx' = idx + 1
    /\ pc' = IF idx = Len(enemies) THEN NextPhase(pc, hero.dead, Len(enemies)) ELSE pc
    /\ died' = <<>>
    /\ UNCHANGED <<ticks, server, crashed, fps, centerx, centery, vx, vy, rotatex,
                   rotatey, destx, desty, stepx, stepy, next_move, glitch, next_slashfx,
                   score, enemy_weights, hero>>
    /\ UNCHANGED <<asked, sockinp, tpc, clients, replies, buf, data, sent>>

(***************************************************************************)
(* Maze.track_bullets                                                      *)
(***************************************************************************)
\* the index of the first awake enemy the bullet b hits, 0 when there is none
FirstHit(b, es, cx, cy, f) ==
    LET hit == {j \in 1..Len(es) :
                  /\ es[j].awake
                  /\ RLt(BulletDistance(b, EnemyPos(es[j], cx, cy, f)[1],
                                        EnemyPos(es[j], cx, cy, f)[2]), distance)}
    IN  IF hit = {} THEN 0 ELSE CHOOSE j \in hit : \A k \in hit : j <= k

\* the sequence q without its elements at the indices in out
RECURSIVE Without(_, _, _)
Without(q, out, i) ==
    IF i > Len(q) THEN <<>>
    ELSE (IF i \in out THEN <<>> ELSE <<q[i]>>) \o Without(q, out, i + 1)

\* a hero parries while he spins and waits for his next heal
BlockUnhealed(h, f) == ~RIsZero(h.spin_queue) /\ RLe(RZero, h.next_heal)

\* track_bullets lines 304-305
Block(h, f) ==
    /\ ~RIsZero(h.spin_queue)
    /\ RLt(h.next_heal, RZero)
    /\ RLt(RDiv(h.spin_queue, R(f)), h.next_strike)

\* the i-th bullet of the record t falls
Fall(t, i) == [t EXCEPT !.fallen = @ \cup {i}]

\* track_bullets lines 320-330: the hero's bullet i hits the awake enemy j
\* (none when j = 0); e is that enemy after Enemy.hit
ShotEnemy(t, i, j, e) ==
    IF j = 0 THEN t
    ELSE IF ~RLt(e.wound, R(ENEMY_HP))
    THEN [Fall(t, i) EXCEPT !.score = Gain(t.score, e),
                            !.map = DieMap(t.map, e),
                            !.dead = Append(t.dead, e),
                            !.enemies = Without(t.enemies, {j}, 1)]
    ELSE [Fall(t, i) EXCEPT !.enemies[j] = e]

\* track_bullets lines 311-343 for the i-th bullet: b is the bullet after its
\* update, wound its damage and g its grid;
\* t = [bullets, enemies, map, score, glitch, env, dead, fallen, crashed]
BulletFate(t, i, b, wound, g, block, cx, cy, f) ==
    IF RLe(wound, RZero) \/ ~isdisplayed(g[1], g[2]) THEN {Fall(t, i)}
    ELSE IF b.color = "Aluminium"
    THEN IF MapAt(t.map, g[1], g[2]) = WALL /\ RLe(t.env.next_move, RZero)
         \* line 319 reads enemy.spawn_volumn, which no enemy has: the
         \* AttributeError leaves the grid tagged and the enemy unlisted
         THEN {[t EXCEPT !.glitch = RMul(wound, R(1000)),
                         !.map = MapSet(t.map, g[1], g[2], ENEMY),
                         !.crashed = "AttributeError"]}
         ELSE {ShotEnemy(t, i, j, IF j = 0 THEN <<>> ELSE Hit(t.enemies[j], wound))
               : j \in {FirstHit(b, t.enemies, cx, cy, f)}}
    ELSE IF RLt(BulletDistance(b, R(HeroX), R(HeroY)), distance)
    THEN IF block
         THEN {[Fall(t, i) EXCEPT !.env.hero.next_strike =
                   RAdd(RAbs(RDiv(t.env.hero.spin_queue, R(f))), ATTACK_SPEED)]}
         ELSE {[Fall(t, i) EXCEPT !.env = env]
               : env \in {hit_hero(t.env, wound, b.color, lucky)
                          : lucky \in IF b.color = "Orange" THEN {FALSE} ELSE BOOLEAN}}
    ELSE {t}

\* the loop of track_bullets from the i-th bullet on: the records it can end with
RECURSIVE TrackLoop(_, _, _, _, _, _)
TrackLoop(t, i, block, cx, cy, f) ==
    IF i > Len(t.bullets) \/ t.crashed # "" THEN {t}
    ELSE UNION {
           UNION {TrackLoop(o, i + 1, block, cx, cy, f)
                  : o \in BulletFate([t EXCEPT !.bullets[i] = b], i, b,
                                     RDiv(t.bullets[i].fall_time, BULLET_LIFETIME),
                                     get_grid(cx, cy, b.x, b.y), block, cx, cy, f)}
           : b \in {BulletUpdate(t.bullets[i], f)} }

TrackBullets ==
    /\ Running /\ pc = "bullets"
    /\ \E s \in Shots(hero) :
         /\ Len(bullets) + Len(s[2]) <= MaxBullets
         /\ \E t \in TrackLoop([bullets |-> bullets \o s[2], enemies |-> enemies,
                                map |-> map, score |-> score, glitch |-> glitch,
                                env |-> [hero |-> s[1], enemy_weights |-> enemy_weights,
                                         next_move |-> next_move],
                                dead |-> <<>>, fallen |-> {}, crashed |-> ""],
                               1, Block(s[1], fps), centerx, centery, fps) :
              /\ bullets' = IF t.crashed = "" THEN Without(t.bullets, t.fallen, 1)
                            ELSE t.bullets
              /\ enemies' = t.enemies /\ map' = t.map /\ score' = t.score
              /\ glitch' = t.glitch /\ hero' = t.env.hero
              /\ enemy_weights' = t.env.enemy_weights
              /\ next_move' = t.env.next_move
              /\ died' = t.dead /\ crashed' = t.crashed
    /\ pc' = IF crashed' = "" THEN NextPhase(pc, hero.dead, Len(enemies)) ELSE pc
    /\ idx' = 0
    /\ UNCHANGED <<ticks, server, fps, centerx, centery, vx, vy, rotatex, rotatey,
                   destx, desty, stepx, stepy, next_slashfx>>
    /\ UNCHANGED <<asked, sockinp, tpc, clients, replies, buf, data, sent>>

(***************************************************************************)
(* Hero.update, Maze.slash, Maze.lose                                      *)
(***************************************************************************)
HeroStep ==
    /\ Running /\ pc = "hero"
    /\ \E rs \in {-1, 1} : hero' = HeroUpdate(hero, fps, rs)
    /\ pc' = NextPhase(pc, hero.dead, Len(enemies))
    /\ died' = <<>>
    /\ UNCHANGED <<ticks, server, crashed, fps, map, centerx, centery, vx, vy, rotatex,
                   rotatey, destx, desty, stepx, stepy, next_move, glitch, next_slashfx,
                   score, enemy_weights, enemies, bullets, idx>>
    /\ UNCHANGED <<asked, sockinp, tpc, clients, replies, buf, data, sent>>

\* Enemy.get_slash
get_slash(e, cx, cy, f) ==
    LET wound == RDiv(RSub(slashd, EnemyDistance(e, cx, cy, f)), HeroR)
    IN  IF RLt(RZero, wound) THEN wound ELSE RZero

\* the self-heal without the lower bound
SelfHealBelowZero(w, healed) == RSub(w, healed)

\* ScarletRed.slash lines 408-411: the wound after the self-heal
SelfHeal(w, healed) == RMax(RSub(w, healed), RZero)

\* a ScarletRed that heals itself and spares the hero
SlashOneTame(t, i, e, wound) ==
    { [enemies |-> [t.enemies EXCEPT ![i] =
                      IF e.color = "ScarletRed"
                      THEN [e EXCEPT !.wound = SelfHeal(e.wound, wound)] ELSE e],
       env |-> env]
      : env \in IF ~RIsZero(e.spin_queue) /\ ~RIsZero(wound) /\ e.color # "ScarletRed"
                THEN {hit_hero(t.env, wound, e.color, lucky)
                      : lucky \in IF e.color = "Orange" THEN {FALSE} ELSE BOOLEAN}
                ELSE {t.env} }

\* an enemy that hurts the hero whether it spins or not
SlashOneAtRest(t, i, e, wound) ==
    { [enemies |-> [t.enemies EXCEPT ![i] =
                      IF e.color = "ScarletRed"
                      THEN [e EXCEPT !.wound = SelfHeal(e.wound, wound)] ELSE e],
       env |-> env]
      : env \in IF ~RIsZero(wound)
                THEN {hit_hero(t.env, wound, e.color, lucky)
                      : lucky \in IF e.color = "Orange" THEN {FALSE} ELSE BOOLEAN}
                ELSE {t.env} }

\* Enemy.slash / ScarletRed.slash of the i-th enemy, whose damage per frame
\* is wound: the records [enemies, env] it can leave
SlashOne(t, i, e, wound) ==
    { [enemies |-> [t.enemies EXCEPT ![i] =
                      IF e.color = "ScarletRed"
                      THEN [e EXCEPT !.wound = SelfHeal(e.wound, wound)] ELSE e],
       env |-> env]
      : env \in IF ~RIsZero(e.spin_queue) /\ ~RIsZero(wound)
                THEN {hit_hero(t.env, wound, e.color, lucky)
                      : lucky \in IF e.color = "Orange" THEN {FALSE} ELSE BOOLEAN}
                ELSE {t.env} }

\* `for enemy in self.enemies: enemy.slash()` from the i-th enemy on
RECURSIVE SlashAll(_, _, _, _, _)
SlashAll(t, i, cx, cy, f) ==
    IF i > Len(t.enemies) THEN {t}
    ELSE UNION {
           UNION {SlashAll(o, i + 1, cx, cy, f) : o \in SlashOne(t, i, t.enemies[i], wound)}
           : wound \in {RDiv(get_slash(t.enemies[i], cx, cy, f), t.enemies[i].spin_speed)} }

\* Maze.slash lines 286-295 for the i-th enemy, at d pixels inside the blade:
\* e is the enemy after Enemy.hit; t = [enemies, map, score, next_slashfx, dead, kill]
Cut(t, i, d, e) ==
    IF ~RLt(RZero, d) THEN t
    ELSE IF ~RLt(e.wound, R(ENEMY_HP))
    THEN [t EXCEPT !.next_slashfx = IF RLe(@, RZero) THEN ATTACK_SPEED ELSE @,
                   !.enemies[i] = e,
                   !.score = Gain(t.score, e),
                   !.map = DieMap(t.map, e),
                   !.dead = Append(t.dead, e),
                   !.kill = @ \cup {i}]
    ELSE [t EXCEPT !.next_slashfx = IF RLe(@, RZero) THEN ATTACK_SPEED ELSE @,
                   !.enemies[i] = e]

\* Maze.slash lines 284-295: the hero's blade on every enemy from the i-th on
RECURSIVE Blade(_, _, _, _, _, _)
Blade(t, i, h, cx, cy, f) ==
    IF i > Len(t.enemies) THEN t
    ELSE CHOOSE r \in
           UNION { {Blade(o, i + 1, h, cx, cy, f)
                    : o \in {Cut(t, i, d, Hit(t.enemies[i],
                                              RDiv(RDiv(RMul(d, SQRT2), distance),
                                                   h.spin_speed)))}}
                   : d \in {RSub(slashd, EnemyDistance(t.enemies[i], cx, cy, f))} } : TRUE

\* Maze.slash; the call of add_enemy on line 298 may never return
SlashStep ==
    /\ Running /\ pc = "slash"
    /\ \E s \in SlashAll([enemies |-> enemies,
                          env |-> [hero |-> hero, enemy_weights |-> enemy_weights,
                                   next_move |-> next_move]],
                         1, centerx, centery, fps) :
         IF RIsZero(hero.spin_queue)
         THEN /\ hero' = s.env.hero
              /\ enemy_weights' = s.env.enemy_weights
              /\ next_move' = s.env.next_move
              /\ enemies' = s.enemies
              /\ died' = <<>>
              /\ pc' = NextPhase(pc, hero.dead, Len(enemies))
              /\ UNCHANGED <<map, score, next_slashfx, crashed>>
         ELSE \E t \in {Blade([enemies |-> s.enemies, map |-> map, score |-> score,
                               next_slashfx |-> next_slashfx, dead |-> <<>>,
                               kill |-> {}], 1, hero, centerx, centery, fps)} :
                \/ /\ hero' = s.env.hero
                   /\ enemy_weights' = s.env.enemy_weights
                   /\ next_move' = s.env.next_move
                   /\ map' = t.map /\ score' = t.score
                   /\ next_slashfx' = t.next_slashfx
                   /\ died' = t.dead
                   /\ enemies' \in add_enemy(t.map, Without(t.enemies, t.kill, 1),
                                             t.score, fps)
                   /\ pc' = NextPhase(pc, hero.dead, Len(enemies))
                   /\ crashed' = crashed
                \/ /\ spins(t.map, Len(Without(t.enemies, t.kill, 1)),
                            VisibleWalls(t.map), t.score)
                   /\ crashed' = "Hang"
                   /\ UNCHANGED <<pc, hero, enemy_weights, next_move, map, score,
                                  next_slashfx, died, enemies>>
    /\ UNCHANGED <<ticks, server, fps, centerx, centery, vx, vy, rotatex,
                   rotatey, destx, desty, stepx, stepy, glitch, bullets, idx>>
    /\ UNCHANGED <<asked, sockinp, tpc, clients, replies, buf, data, sent>>

\* Maze.lose
lose ==
    /\ hero' = [hero EXCEPT !.dead = TRUE, !.wound = R(HERO_HP),
                            !.slashing = FALSE, !.firing = FALSE]
    /\ destx' = MIDDLE /\ desty' = MIDDLE
    /\ stepx' = 0 /\ stepy' = 0
    /\ vx' = RZero /\ vy' = RZero

\* Maze.update line 427 and Maze.lose
LoseStep ==
    /\ Running /\ pc = "lose"
    /\ IF ~RLt(hero.wound, R(HERO_HP))
       THEN lose
       ELSE UNCHANGED <<hero, destx, desty, stepx, stepy, vx, vy>>
    /\ pc' = NextPhase(pc, hero.dead, Len(enemies))
    /\ died' = <<>>
    /\ UNCHANGED <<ticks, server, crashed, fps, map, centerx, centery, rotatex, rotatey,
                   next_move, glitch, next_slashfx, score, enemy_weights, enemies,
                   bullets, idx>>
    /\ UNCHANGED <<asked, sockinp, tpc, clients, replies, buf, data, sent>>

(***************************************************************************)
(* Game.update (the key `new`), Game.user_control, Game.control, Game.move *)
(***************************************************************************)
\* Maze.reinit
reinit ==
    /\ centerx' = RDiv(R(WinW), R(2)) /\ centery' = RDiv(R(WinH), R(2))
    /\ score' = INIT_SCORE
    /\ \E m0 \in NewMaps :
         /\ map' = MapSet(m0, MIDDLE, MIDDLE, HERO)
         /\ enemies' \in add_enemy(MapSet(m0, MIDDLE, MIDDLE, HERO), <<>>,
                                   INIT_SCORE, fps)
    /\ destx' = MIDDLE /\ desty' = MIDDLE /\ stepx' = 0 /\ stepy' = 0
    /\ vx' = RZero /\ vy' = RZero /\ rotatex' = 0 /\ rotatey' = 0
    /\ bullets' = <<>>
    /\ enemy_weights' = InitWeights
    /\ next_move' = RZero /\ next_slashfx' = RZero
    /\ hero' = [hero EXCEPT !.next_strike = RZero, !.next_heal = R(-1),
                            !.highness = RZero, !.slashing = FALSE, !.firing = FALSE,
                            !.dead = FALSE, !.spin_queue = RZero, !.wound = RZero,
                            !.wounds = <<RZero>>]

\* Game.update lines 196-198: the key `new`, before Maze.update
Reinit ==
    /\ Running /\ pc = "update" /\ ticks \in 1..(MaxTicks - 1)
    /\ ~server
    /\ reinit
    /\ died' = <<>>
    /\ UNCHANGED <<pc, ticks, server, crashed, fps, glitch, idx>>
    /\ UNCHANGED <<asked, sockinp, tpc, clients, replies, buf, data, sent>>

\* the inputs of user_control: <<right, down, angle, firing, slashing>>
Controls ==
    { <<0, 0, <<-3, 4>>, FALSE, FALSE>>,
      <<1, 0, <<-3, 4>>, FALSE, FALSE>>,
      <<0, 0, <<0, 1>>, TRUE, FALSE>>,
      <<0, 0, <<1, 1>>, TRUE, FALSE>>,
      <<0, 0, <<-3, 4>>, FALSE, TRUE>>,
      <<0, 0, <<1, 2>>, FALSE, TRUE>> }

\* Game.control and Game.move with the input c, the step being <<sx, sy>>
\* and the destination <<dx, dy>>
control(c, dx, dy, sx, sy) ==
    LET keyed    == c[1] # 0 \/ c[2] # 0
        velocity == RDiv(RMul(distance, R(HERO_SPEED)), R(fps))
        accel    == RDiv(RMul(velocity, R(HERO_SPEED)), R(fps))
        stunned  == RLt(RZero, next_move)
        steps    == IF keyed THEN {<<sx, sy>>}
                    ELSE set_step(map, dx, dy, sx, sy, vx, vy)
    IN  /\ \E st \in steps :
             LET x == IF keyed THEN -c[1] ELSE st[1]
                 y == IF keyed THEN -c[2] ELSE st[2]
             IN  /\ stepx' = st[1] /\ stepy' = st[2]
                 /\ vx' = MoveAxis(vx, x, stunned, velocity, accel)
                 /\ vy' = MoveAxis(vy, y, stunned, velocity, accel)
        /\ hero' = [update_angle(hero, c[3]) EXCEPT !.firing = c[4], !.slashing = c[5]]

\* Game.user_control with the keys and the mouse of c, between two updates
Control(c) ==
    /\ Running /\ pc = "control" /\ ticks < MaxTicks
    /\ pc' = "update"
    /\ died' = <<>>
    /\ IF hero.dead
       THEN UNCHANGED <<destx, desty, stepx, stepy, vx, vy, hero>>
       ELSE
       LET keyed == c[1] # 0 \/ c[2] # 0
           dx1   == IF keyed THEN MIDDLE ELSE destx
           dy1   == IF keyed THEN MIDDLE ELSE desty
           sx1   == IF keyed THEN 0 ELSE stepx
           sy1   == IF keyed THEN 0 ELSE stepy
       IN  /\ destx' = dx1 /\ desty' = dy1
           /\ control(c, dx1, dy1, sx1, sy1)
    /\ UNCHANGED <<ticks, server, crashed, fps, map, centerx, centery, rotatex, rotatey,
                   next_move, glitch, next_slashfx, score, enemy_weights, enemies,
                   bullets, idx>>
    /\ UNCHANGED <<asked, sockinp, tpc, clients, replies, buf, data, sent>>

\* where the mouse cursor is, in pixels of the window
Mice == {<<24, 16>>, <<8, 24>>}

\* Game.user_control lines 322-325 with `autove` pressed, no direction key
\* and the cursor at p: the destination becomes the grid under the cursor,
\* and Maze.set_step, which takes one argument besides self, is called with
\* two
Autove(p) ==
    /\ Running /\ pc = "control" /\ ticks < MaxTicks
    /\ ~hero.dead
    /\ \E g \in {get_grid(centerx, centery, R(p[1]), R(p[2]))} :
         destx' = g[1] /\ desty' = g[2]
    /\ crashed' = "TypeError"
    /\ died' = <<>>
    /\ UNCHANGED <<pc, ticks, server, fps, map, centerx, centery, vx, vy, rotatex,
                   rotatey, stepx, stepy, next_move, glitch, next_slashfx, score,
                   enemy_weights, enemies, bullets, hero, idx>>
    /\ UNCHANGED <<asked, sockinp, tpc, clients, replies, buf, data, sent>>

Next ==
    \/ ScrollStep
    \/ TimersStep
    \/ RotateStep
    \/ WakeStep
    \/ EnemyStep
    \/ TrackBullets
    \/ HeroStep
    \/ SlashStep
    \/ LoseStep
    \/ Reinit
    \/ \E c \in Controls : Control(c)
    \/ \E p \in Mice : Autove(p)

Spec == Init /\ [][Next]_vars

(***************************************************************************)
(* The server: main calls Game.update and Game.control with Game.sockinp   *)
(* in turn, and a thread runs Game.remote_control.  The interpreter can    *)
(* switch between the two threads anywhere; the model switches between    *)
(* the statement groups of Maze.update, and lets Maze.reinit run between   *)
(* two updates only.                                                       *)
(***************************************************************************)
\* Game.__init__ lines 122-130: the server listens, no client yet
Listening ==
    /\ server = TRUE /\ sockinp = Freeze /\ tpc = "accept" /\ clients = 0
    /\ replies = 0
    /\ buf = <<>> /\ data = <<>> /\ sent = <<>>


\* main, line 418: Game.control with the fields of Game.sockinp, whether the
\* hero is dead or not
SockControl ==
    /\ Running /\ server /\ pc = "control" /\ ticks < MaxTicks
    /\ pc' = "update"
    /\ died' = <<>>
    /\ control(sockinp, destx, desty, stepx, stepy)
    /\ UNCHANGED <<ticks, server, crashed, fps, map, centerx, centery, rotatex, rotatey,
                   destx, desty, next_move, glitch, next_slashfx, score, enemy_weights,
                   enemies, bullets, idx>>
    /\ UNCHANGED <<asked, sockinp, tpc, clients, replies, buf, data, sent>>

\* the replies of a client, as buf.decode().split() returns them
Replies ==
    { <<"5", "-135", "0">>, <<"4", "90", "2">>, <<"9", "0", "0">>,
      <<"4", "585", "0">>, <<"4", "90", "1">>,
      <<"4", "0">>, <<"a", "0", "0">>, <<>> }

\* int() of a token; a token outside the domain raises ValueError
IntOf ==
    [t \in {"0", "1", "2", "4", "5", "9", "90", "585", "-135"} |->
        CASE t = "0" -> 0 [] t = "1" -> 1 [] t = "2" -> 2 [] t = "4" -> 4 [] t = "5" -> 5
          [] t = "9" -> 9 [] t = "90" -> 90 [] t = "585" -> 585 [] OTHER -> -135]

\* remote_control lines 281-284: map(int, buf.decode().split()) unpacks
\* into three names
Parses(r) == Len(r) = 3 /\ \A i \in 1..3 : r[i] \in DOMAIN IntOf

\* math.radians, in multiples of pi
radians(a) == RDiv(R(a), R(180))

\* hit-and-run.py, get_moves: the cells around (y, x), in the order of
\* their move codes 0..8
get_moves(y, x) ==
    << <<y - 1, x - 1>>, <<y - 1, x>>, <<y - 1, x + 1>>,
       <<y,     x - 1>>, <<y,     x>>, <<y,     x + 1>>,
       <<y + 1, x - 1>>, <<y + 1, x>>, <<y + 1, x + 1>> >>

\* the pair read as <<x, y>>
DecodeSwapped(move) == <<(move % 3) - 1, (move \div 3) - 1>>

\* remote_control line 285: <<y, x>> of a move code
Decode(move) == <<(move \div 3) - 1, (move % 3) - 1>>

\* remote_control lines 285-286: the input a reply stands for
Input(r) ==
    LET move   == Decode(IntOf[r[1]])
        attack == IntOf[r[3]]
    IN  <<move[2], move[1], radians(IntOf[r[2]]),
          attack % 2 = 1, attack \div 2 # 0>>

\* misc.py, deg: the angle a (in units of pi) in rounded degrees
deg(a) ==
    LET d == RMul(a, R(180))
    IN  RRound(IF RLt(RZero, d) THEN d ELSE RAdd(d, R(360)))

\* Game.export lines 153-156: the angle field of the hero's line
HeroLine == deg(hero.angle)

\* Game.export lines 162-169: the angle fields of the enemies' lines
EnemyLines ==
    { deg(enemies[i].angle) :
        i \in { j \in DOMAIN enemies :
                  ~(enemies[j].color = "Chameleon"
                    /\ RLe(enemies[j].visible, RZero) /\ RLe(next_move, RZero)) } }

\* remote_control line 271: what the server sends instead of a snapshot
Terminator == "0000000"

\* when the thread reads the game: the tick, and whether Maze.update is
\* between two of its runs
Stamp == <<ticks, pc \in {"update", "control"}>>

\* remote_control lines 264-268: a client connects
Accept ==
    /\ Running /\ server /\ tpc = "accept" /\ clients < MaxClients
    /\ pc \in {"update", "control"}
    /\ reinit
    /\ tpc' = "loop" /\ clients' = clients + 1
    /\ died' = <<>>
    /\ UNCHANGED <<pc, ticks, server, crashed, fps, glitch, idx>>
    /\ UNCHANGED <<asked, sockinp, replies, buf, data, sent>>

\* remote_control lines 269-273 and Game.export lines 152-156: the hero is
\* dead and the thread leaves, or it starts the export with the hero's line
LoopTop ==
    /\ Running /\ server /\ tpc = "loop"
    /\ IF hero.dead
       THEN tpc' = "leave" /\ data' = data /\ sent' = <<Terminator>>
       ELSE tpc' = "export" /\ data' = <<Stamp>> /\ sent' = sent
    /\ UNCHANGED <<pc, ticks, server, crashed, fps, map, centerx, centery, vx, vy,
                   rotatex, rotatey, destx, desty, stepx, stepy, next_move, glitch,
                   next_slashfx, score, enemy_weights, enemies, bullets, hero, idx,
                   died, asked, sockinp, clients, replies, buf>>

\* remote_control lines 274-275: connection.send raises, on a socket the
\* client has closed or does not read from in time, and the thread ends
SendFails ==
    /\ Running /\ server /\ tpc = "export"
    /\ tpc' = "ended"
    /\ data' = <<>>
    /\ UNCHANGED <<pc, ticks, server, crashed, fps, map, centerx, centery, vx, vy,
                   rotatex, rotatey, destx, desty, stepx, stepy, next_move, glitch,
                   next_slashfx, score, enemy_weights, enemies, bullets, hero, idx,
                   died, asked, sockinp, clients, replies, buf, sent>>

\* Game.export lines 158-182 and remote_control lines 274-275: the walls,
\* the enemies, the bullets and the score, and the snapshot is sent
Export ==
    /\ Running /\ server /\ tpc = "export"
    /\ sent' = Append(data, Stamp)
    /\ data' = <<>>
    /\ tpc' = "recv"
    /\ UNCHANGED <<pc, ticks, server, crashed, fps, map, centerx, centery, vx, vy,
                   rotatex, rotatey, destx, desty, stepx, stepy, next_move, glitch,
                   next_slashfx, score, enemy_weights, enemies, bullets, hero, idx,
                   died, asked, sockinp, clients, replies, buf>>

\* remote_control lines 276-287: the reply r; a closed or timed out
\* connection gives the empty reply
Recv(r) ==
    /\ Running /\ server /\ tpc = "recv" /\ replies < MaxReplies
    /\ buf' = r
    /\ IF Parses(r)
       THEN sockinp' = Input(r) /\ tpc' = "loop"
       ELSE sockinp' = sockinp /\ tpc' = "leave"
    /\ UNCHANGED <<pc, ticks, server, crashed, fps, map, centerx, centery, vx, vy,
                   rotatex, rotatey, destx, desty, stepx, stepy, next_move, glitch,
                   next_slashfx, score, enemy_weights, enemies, bullets, hero, idx,
                   died, asked, clients, data, sent>>
    /\ replies' = replies + 1

\* remote_control lines 288-293: after the loop
Leave ==
    /\ Running /\ server /\ tpc = "leave"
    /\ sockinp' = Freeze
    /\ tpc' = "accept"
    /\ IF ~hero.dead
       THEN lose
       ELSE UNCHANGED <<hero, destx, desty, stepx, stepy, vx, vy>>
    /\ UNCHANGED <<pc, ticks, server, crashed, fps, map, centerx, centery,
                   rotatex, rotatey, next_move, glitch, next_slashfx, score,
                   enemy_weights, enemies, bullets, idx, died, asked, clients, replies, buf,
                   data, sent>>

\* the reply a client that has been playing for a while has just sent: go
\* right, aim at NW, no attack
Asked == <<"5", "-135", "0">>

\* remote_control lines 286-287: a client is connected, the thread has just
\* stored its reply and is back at the top of its loop
Connected ==
    /\ server = TRUE /\ sockinp = Input(Asked) /\ tpc = "loop" /\ clients = 1
    /\ replies = 0
    /\ buf = Asked /\ data = <<>> /\ sent = <<Stamp, Stamp>>

\* a hero one blow from death, not slashing, beside a Butter enemy in the
\* middle of its strike
LastStand(f) ==
    <<<<[Foe(f, MIDDLE - 1, MIDDLE, "Butter", <<14, 5>>) EXCEPT !.spin_queue = <<7, 3>>]>>,
      Wounded(f, <<24, 5>>, FALSE, <<1, 2>>), INIT_SCORE, R(HeroX), <<>>,
      InitWeights, RZero>>

\* the server before the first client, or in the middle of a game
InitServer == (InitNew /\ Listening) \/ (Scene(LastStand(10)) /\ Connected)

NextServer ==
    \/ ScrollStep
    \/ TimersStep
    \/ RotateStep
    \/ WakeStep
    \/ EnemyStep
    \/ TrackBullets
    \/ HeroStep
    \/ SlashStep
    \/ LoseStep
    \/ SockControl
    \/ Accept
    \/ LoopTop
    \/ Export
    \/ SendFails
    \/ \E r \in Replies : Recv(r)
    \/ Leave

SpecServer == InitServer /\ [][NextServer]_vars

(***************************************************************************)
(* Properties                                                              *)
(***************************************************************************)
\* Maze.update has returned (or has not started): between two ticks
TickEnd == Running /\ pc \in {"control", "update"}

\* the step is Maze.reinit
IsReinit == pc = "update" /\ pc' = "update"

HeroCells == {c \in Idx \X Idx : map[c[1]][c[2]] = HERO}

EnemyCells == {c \in Idx \X Idx : map[c[1]][c[2]] = ENEMY}

Awake == {i \in 1..Len(enemies) : enemies[i].awake}

\* the sum of the wounds of a sequence of enemies
RECURSIVE Wounds(_)
Wounds(es) == IF es = <<>> THEN RZero ELSE RAdd(es[1].wound, Wounds(Tail(es)))

\* C1: between two ticks and after reinit(), while the hero is alive, exactly
\* one grid is tagged HERO and it is map[MIDDLE][MIDDLE].
C1_HeroAtMiddle ==
    (TickEnd /\ ~hero.dead) => HeroCells = {<<MIDDLE, MIDDLE>>}

\* C2 as stated: no two awake enemies share a grid.
C2_NoSharedGrid ==
    \A i \in Awake, j \in Awake :
        i # j => <<enemies[i].x, enemies[i].y>> # <<enemies[j].x, enemies[j].y>>

\* the enemies of the next state that the step appended
Appended == {i \in 1..Len(enemies') : i > Len(enemies) - Len(died')}

\* C2, amended: an enemy that add_enemy appends is asleep on a WALL grid of the
\* display, or is the awake clone of an awake Plum listed before it, on the
\* grid of that Plum; and Enemy.move takes an enemy only into a grid that is
\* EMPTY.
C2_SpawnAndMove ==
    [][/\ ~IsReinit =>
            \A i \in Appended :
                \/ /\ ~enemies'[i].awake
                   /\ isdisplayed(enemies'[i].x, enemies'[i].y)
                   /\ MapAt(map', enemies'[i].x, enemies'[i].y) = WALL
                \/ /\ enemies'[i].awake /\ enemies'[i].color = "Plum"
                   /\ \E j \in 1..(i - 1) :
                        /\ enemies'[j].awake /\ enemies'[j].color = "Plum"
                        /\ enemies'[j].x = enemies'[i].x
                        /\ enemies'[j].y = enemies'[i].y
       /\ (pc = "enemies" /\ <<enemies'[idx].x, enemies'[idx].y>>
                              # <<enemies[idx].x, enemies[idx].y>>)
            => MapAt(map, enemies'[idx].x, enemies'[idx].y) = EMPTY]_vars

\* a Plum and its clone, awake on one grid
C2_Witness ==
    \E i \in Awake, j \in Awake :
        /\ i < j
        /\ enemies[i].color = "Plum" /\ enemies[j].color = "Plum"
        /\ enemies[i].x = enemies[j].x /\ enemies[i].y = enemies[j].y

\* C3: every grid tagged ENEMY is the grid of an awake enemy of maze.enemies.
C3_TagHasEnemy ==
    \A c \in EnemyCells :
        \E i \in Awake : enemies[i].x = c[1] /\ enemies[i].y = c[2]

\* C4: between two ticks 0 <= hero.wound <= HERO_HP, and a hero whose wound
\* has reached HERO_HP is dead with wound = HERO_HP.
C4_HeroWound ==
    TickEnd =>
        /\ RLe(RZero, hero.wound)
        /\ RLe(hero.wound, R(HERO_HP))
        /\ (hero.wound = R(HERO_HP) => hero.dead)
        /\ (hero.dead => hero.wound = R(HERO_HP))

\* a tick in which the wound reached HERO_HP has ended
C4_Witness == pc = "control" /\ hero.dead /\ hero.wound = R(HERO_HP)

\* C5: between two ticks every listed enemy has 0 <= wound < ENEMY_HP (an
\* enemy whose wound reached ENEMY_HP has been removed in that tick).
C5_EnemyWound ==
    TickEnd =>
        \A i \in 1..Len(enemies) :
            RLe(RZero, enemies[i].wound) /\ RLt(enemies[i].wound, R(ENEMY_HP))

\* a tick has ended in which an enemy reached ENEMY_HP and was removed, and
\* a ScarletRed is listed whose self-heal stopped at 0
C5_Witness ==
    \/ /\ pc = "lose" /\ died # <<>>
       /\ \E k \in 1..Len(died) : RLe(R(ENEMY_HP), died[k].wound)
    \/ /\ pc = "lose"
       /\ \E i \in Awake : enemies[i].color = "ScarletRed" /\ RIsZero(enemies[i].wound)

\* C6: but for reinit(), a step leaves the score at least INIT_SCORE and never
\* lower than before, and changes it only by removing enemies, by the sum of
\* their wounds.
C6_Score ==
    [][~IsReinit =>
         /\ RLe(INIT_SCORE, score')
         /\ RLe(score, score')
         /\ score' = RAdd(score, Wounds(died'))
         /\ (score' # score => died' # <<>>)]_vars

\* a step has removed a wounded enemy and raised the score
C6_Witness == died # <<>> /\ RLt(RZero, Wounds(died)) /\ RLt(INIT_SCORE, score)

\* C7: Maze.update runs its statement groups in the order scroll, timers,
\* rotate, wake and bullet translation, enemy updates, track_bullets, then
\* hero update, slash and loss handling, which are skipped when the hero is
\* dead; each group leaves alone what the other groups own.
C7_UpdateOrder ==
    [][/\ (pc = "update" /\ ~IsReinit)
            => pc' = "timers" /\ UNCHANGED <<next_move, map, enemies, bullets, hero>>
       /\ pc = "timers"
            => /\ pc' = "rotate"
               /\ next_move' = RSub(next_move, RDiv(R(1000), R(fps)))
               /\ UNCHANGED <<centerx, centery, map, enemies, bullets, hero>>
       /\ pc = "rotate"
            => \/ crashed' # ""
               \/ pc' = "wake" /\ UNCHANGED <<next_move, bullets, hero>>
       /\ pc = "wake"
            => /\ pc' = IF enemies = <<>> THEN "bullets" ELSE "enemies"
               /\ UNCHANGED <<centerx, centery, score, hero>>
       /\ pc = "enemies"
            => /\ pc' = IF idx = Len(enemies) THEN "bullets" ELSE "enemies"
               /\ UNCHANGED <<centerx, centery, score, hero>>
       /\ pc = "bullets"
            => \/ crashed' # ""
               \/ pc' = IF hero.dead THEN "control" ELSE "hero"
       /\ pc = "hero"
            => ~hero.dead /\ pc' = "slash" /\ UNCHANGED <<map, enemies, bullets, score>>
       /\ pc = "slash"
            => \/ crashed' # ""
               \/ ~hero.dead /\ pc' = "lose" /\ UNCHANGED <<bullets, centerx, centery>>
       /\ pc = "lose"
            => /\ ~hero.dead /\ pc' = "control"
               /\ hero'.dead = ~RLt(hero.wound, R(HERO_HP))
               /\ UNCHANGED <<map, enemies, bullets, score>>
       /\ pc = "control" => (crashed' # "" \/ pc' = "update")]_vars

\* the last tick has run up to track_bullets for a hero that was dead when it began
C7_Witness == Running /\ pc = "bullets" /\ ticks = MaxTicks /\ hero.dead

\* the ratio spin_queue / spin_speed is the same before and after a rescale
SameRatio(r) == r = <<>> \/ RDiv(r[1].q0, r[1].s0) = RDiv(r[1].q1, r[1].s1)

\* C8: the rescale at the start of Hero.update and of the update of an awake
\* enemy keeps the ratio spin_queue / spin_speed.
C8_RatioKept ==
    /\ SameRatio(hero.resc)
    /\ \A i \in 1..Len(enemies) : SameRatio(enemies[i].resc)

\* the hero and an enemy have been rescaled in mid-spin to another speed
Rescaled(r) == r # <<>> /\ ~RIsZero(r[1].q0) /\ r[1].s0 # r[1].s1

C8_Witness ==
    /\ Rescaled(hero.resc)
    /\ \E i \in 1..Len(enemies) : Rescaled(enemies[i].resc)

\* C9 as stated: the hero starts a spin only when round(spin_queue) was 0,
\* an enemy only when its spin_queue was 0.
C9_StartsIdle ==
    /\ hero.began # <<>> => RRound(hero.began[1].before) = 0
    /\ \A i \in 1..Len(enemies) :
         enemies[i].began # <<>> => RIsZero(enemies[i].began[1].before)

\* C9, amended: an enemy starts a spin only when its spin_queue is 0; the
\* hero starts one whenever slashing is set and next_strike has run out,
\* whatever spin_queue holds.
C9_StartGuards ==
    /\ hero.began # <<>>
         => hero.began[1].slashing /\ RLe(hero.began[1].strike, RZero)
    /\ \A i \in 1..Len(enemies) :
         enemies[i].began # <<>> => RIsZero(enemies[i].began[1].before)

\* the hero has started a spin in the middle of a turn, an enemy one from rest
C9_Witness ==
    /\ hero.began # <<>> /\ RRound(hero.began[1].before) # 0
    /\ \E i \in 1..Len(enemies) : enemies[i].began # <<>>

\* a spin starts with spin_queue = +-spin_speed
FullTurn(b) == b.queue = b.speed \/ b.queue = RNeg(b.speed)

\* C10 as stated: a hero or an enemy that starts a spin sets spin_queue to
\* +-spin_speed and resets its next_strike to ATTACK_SPEED in that update.
C10_StrikeReset ==
    /\ hero.began # <<>>
         => FullTurn(hero.began[1]) /\ hero.began[1].after = ATTACK_SPEED
    /\ \A i \in 1..Len(enemies) :
         enemies[i].began # <<>>
           => FullTurn(enemies[i].began[1]) /\ enemies[i].began[1].after = ATTACK_SPEED

\* C10, amended: a spin starts with spin_queue = +-spin_speed; the hero's
\* update resets next_strike to ATTACK_SPEED, the enemy's update leaves
\* next_strike at its value after the frame's decrement.
C10_HeroResets ==
    /\ hero.began # <<>>
         => FullTurn(hero.began[1]) /\ hero.began[1].after = ATTACK_SPEED
    /\ \A i \in 1..Len(enemies) :
         enemies[i].began # <<>>
           => /\ FullTurn(enemies[i].began[1])
              /\ enemies[i].began[1].after = enemies[i].began[1].strike
              /\ enemies[i].began[1].after # ATTACK_SPEED

\* the hero and an enemy have each started a spin
C10_Witness ==
    /\ hero.began # <<>>
    /\ \E i \in 1..Len(enemies) :
         enemies[i].began # <<>> /\ RLe(enemies[i].began[1].after, RZero)

\* C11 as stated: every enemy that add_enemy creates stands on a displayed
\* WALL grid whose four adjacent grids are all WALL.
C11_InteriorSpawn ==
    [][~IsReinit =>
         \A i \in Appended :
             ~enemies'[i].awake
               => /\ isdisplayed(enemies'[i].x, enemies'[i].y)
                  /\ MapAt(map', enemies'[i].x, enemies'[i].y) = WALL
                  /\ Interior(map', <<enemies'[i].x, enemies'[i].y>>)]_vars

\* C11, amended: every enemy that add_enemy creates stands on a displayed
\* WALL grid with an adjacent grid that is not WALL, unless it is a new Plum
\* that an awake Plum has cloned onto its own grid.
C11_EdgeSpawn ==
    [][~IsReinit =>
         \A i \in Appended :
             \/ /\ ~enemies'[i].awake
                /\ isdisplayed(enemies'[i].x, enemies'[i].y)
                /\ MapAt(map', enemies'[i].x, enemies'[i].y) = WALL
                /\ ~Interior(map', <<enemies'[i].x, enemies'[i].y>>)
             \/ /\ enemies'[i].awake /\ enemies'[i].color = "Plum"
                /\ MapAt(map', enemies'[i].x, enemies'[i].y) # WALL]_vars

\* Maze.slash has removed an enemy and add_enemy has put a new one on the
\* edge of a wall, though a wall with WALL on all four sides was on display
C11_Witness ==
    /\ pc = "lose" /\ died # <<>>
    /\ \E i \in 1..Len(enemies) :
         /\ ~enemies[i].awake
         /\ MapAt(map, enemies[i].x, enemies[i].y) = WALL
         /\ ~Interior(map, <<enemies[i].x, enemies[i].y>>)
    /\ \E c \in VisibleWalls(map) : Interior(map, c)

\* C12: a bullet that hits nothing is gone at the end of the first tick at
\* which its flight time has reached BULLET_LIFETIME, that is at which its
\* fall_time has run out; the first tick has one fps, the constant one.
C12_ExpiresInTime ==
    (TickEnd /\ ticks = 1) =>
        \A i \in 1..Len(bullets) : RLt(RZero, bullets[i].fall_time)

\* C13: track_bullets does not raise on a hero bullet that is in a WALL grid
\* while next_move <= 0.
C13_NoRaise == crashed # "AttributeError"

\* the enemy bullets that track_bullets finds within one grid of the hero
Incoming ==
    {i \in 1..Len(bullets) :
        /\ bullets[i].color # "Aluminium"
        /\ RLt(RZero, bullets[i].fall_time)
        /\ \E b \in {BulletUpdate(bullets[i], fps)} :
             /\ \E g \in {get_grid(centerx, centery, b.x, b.y)} : isdisplayed(g[1], g[2])
             /\ RLt(BulletDistance(b, R(HeroX), R(HeroY)), distance)}

\* the enemy bullets left within one grid of the hero
Near(bs) ==
    {i \in 1..Len(bs) : /\ bs[i].color # "Aluminium"
                        /\ RLt(BulletDistance(bs[i], R(HeroX), R(HeroY)), distance)}

Simulation == <<map, score, enemies, bullets, hero>>

\* the step is one of the thread that runs remote_control
ThreadStep == tpc' # tpc

\* C18: the thread of remote_control never changes the state of the
\* simulation; it writes Game.sockinp only.
C18_ThreadWritesInput == [][ThreadStep => UNCHANGED Simulation]_vars

\* C19: every snapshot sent was read in one piece between two runs of
\* Maze.update: its parts were read at the same tick, none of them inside
\* Maze.update.
C19_PointInTime ==
    Len(sent) = 2 => (sent[1] = sent[2] /\ sent[1][2])

\* C20: a reply that does not parse as three integers ends the connection
\* without an exception, changes nothing of the simulation, and leaves
\* Game.sockinp, the last valid input, as it is.
C20_BadReplyKeepsInput ==
    [][(tpc \in {"recv", "leave"} /\ ThreadStep /\ buf' # <<>> /\ ~Parses(buf'))
       => /\ UNCHANGED <<Simulation, sockinp>>
          /\ crashed' = ""]_vars

\* the larger of the distances along the two axes from (hx, hy) to p
Chebyshev(hx, hy, p) == RMax(RAbs(RSub(hx, p[1])), RAbs(RSub(hy, p[2])))

\* the centre of a WALL grid of the display is closer than distance/2 +
\* hero.R to (hx, hy), the maze being centred at (cx, cy)
WallNear(m, cx, cy, hx, hy) ==
    \E c \in rangex \X rangey :
        /\ MapAt(m, c[1], c[2]) = WALL
        /\ RLt(Chebyshev(hx, hy, get_pos(cx, cy, c[1], c[2])),
               RAdd(RDiv(distance, R(2)), HeroR))

\* the grid of an enemy is closer than distance/2 to (hx, hy)
FoeNear(es, cx, cy, hx, hy) ==
    \E i \in 1..Len(es) :
        RLt(Chebyshev(hx, hy, get_pos(cx, cy, es[i].x, es[i].y)), RDiv(distance, R(2)))

HitWounds == {RZero, <<1, 2>>, R(1), R(MAXW)}

\* C16: every weight is at least MINW and below MAXW; hit_hero(wound, c)
\* adds the wound to the weight of c when the sum stays below MAXW, leaves
\* it as it is otherwise, and leaves the weight of every other colour.
C16_WeightsCapped ==
    /\ \A c \in ENEMIES : /\ RLe(R(MINW), enemy_weights[c])
                           /\ RLt(enemy_weights[c], R(MAXW))
    /\ \A c \in ENEMIES, wound \in HitWounds, lucky \in BOOLEAN :
         \E after \in {hit_hero([hero |-> hero, enemy_weights |-> enemy_weights,
                                 next_move |-> next_move], wound, c, lucky).enemy_weights} :
            /\ after[c] = IF RLt(RAdd(enemy_weights[c], wound), R(MAXW))
                          THEN RAdd(enemy_weights[c], wound) ELSE enemy_weights[c]
            /\ \A d \in ENEMIES \ {c} : after[d] = enemy_weights[d]

\* a bullet has just hit the hero for a wound that the weight of its
\* colour had no room for
C16_Witness ==
    /\ Running /\ pc = "hero" /\ bullets = <<>>
    /\ \E c \in ENEMIES :
         /\ RLt(R(MINW), enemy_weights[c])
         /\ ~RLt(RAdd(enemy_weights[c], <<1, 2>>), R(MAXW))
    /\ hero.wounds[Len(hero.wounds)] = R(1)

\* the enemies whose slash reaches the hero
Slashers ==
    {i \in 1..Len(enemies) :
        /\ ~RIsZero(enemies[i].spin_queue)
        /\ RLt(RZero, get_slash(enemies[i], centerx, centery, fps))}

IsSockControl == Running /\ server /\ pc = "control" /\ pc' = "update"

\* C21: every input that Game.control consumes has moveX and moveY in
\* {-1, 0, 1}, whatever reply of at most 7 bytes the server has accepted.
C21_UnitMoves ==
    [][IsSockControl => (sockinp[1] \in -1..1 /\ sockinp[2] \in -1..1)]_vars

\* C22: for every dx, dy in {-1, 0, 1} the server decodes the move code
\* (dy+1)*3 + (dx+1), the index of the client's get_moves, to (dy, dx), and
\* the codes 0..8 correspond one to one to the nine pairs; the input the
\* thread stores for a reply with such a code is moveX = dx, moveY = dy.
C22_MoveCodes ==
    [][(server /\ tpc = "recv" /\ tpc' = "loop") =>
         /\ \A dx \in -1..1, dy \in -1..1 :
              /\ Decode((dy + 1) * 3 + (dx + 1)) = <<dy, dx>>
              /\ get_moves(0, 0)[(dy + 1) * 3 + (dx + 1) + 1] = <<dy, dx>>
         /\ \A c \in 0..8 : Decode(c) \in (-1..1) \X (-1..1)
         /\ \A c \in 0..8, d \in 0..8 : Decode(c) = Decode(d) => c = d
         /\ \A dx \in -1..1, dy \in -1..1 :
              IntOf[buf'[1]] = (dy + 1) * 3 + (dx + 1) =>
                (sockinp'[1] = dx /\ sockinp'[2] = dy)]_vars

\* the server has decoded the move code 5 of a client: one grid to the right
C22_Witness ==
    /\ Running /\ tpc = "loop" /\ replies > 0 /\ Parses(buf)
    /\ IntOf[buf[1]] = 5 /\ sockinp = Input(buf)
    /\ sockinp[1] = 1 /\ sockinp[2] = 0

\* C23: the angle fields of every snapshot the server exports (the hero's
\* line, read first, and the enemies' lines) are whole degrees in [0, 360).
C23_DegreesInRange ==
    [][/\ (Running /\ tpc = "loop" /\ tpc' = "export") => HeroLine \in 0..359
       /\ (Running /\ tpc = "export" /\ tpc' = "recv") => EnemyLines \subseteq 0..359]_vars

\* a connection of the server has ended
Over == server /\ clients > 0 /\ tpc \in {"accept", "ended"}

\* C24: on a connection the thread sends a snapshot and receives a reply in
\* turn; it sends the terminator exactly when it sees the hero dead, and then
\* leaves; and once a connection has ended, however it ended, the hero is
\* dead and Game.sockinp is the neutral input.
C24_Protocol ==
    [][/\ (tpc = "loop" /\ tpc' # tpc)
          => /\ hero.dead <=> (tpc' = "leave" /\ sent' = <<Terminator>>)
             /\ ~hero.dead <=> tpc' = "export"
       /\ (tpc = "export" /\ tpc' = "recv") => Len(sent') = 2
       /\ (tpc = "recv" /\ tpc' # tpc) => (sent' = sent /\ tpc' \in {"loop", "leave"})
       /\ (sent' # sent /\ sent' = <<Terminator>>) => (tpc = "loop" /\ hero.dead)
       /\ Over' => (hero'.dead /\ sockinp' = Freeze)]_vars

\* the step is Maze.reinit, in Game.update or in the thread of the server
Reborn == ~hero'.dead /\ RIsZero(hero'.wound) /\ score' = INIT_SCORE

\* C26: once the hero is dead, and until Maze.reinit, it stays dead, it
\* neither slashes nor fires, and the maze neither moves nor has a step, in
\* local mode and in server mode.
C26_DeadStaysFrozen ==
    [][(hero.dead /\ ~Reborn)
       => /\ hero'.dead /\ ~hero'.slashing /\ ~hero'.firing
          /\ RIsZero(vx') /\ RIsZero(vy') /\ stepx' = 0 /\ stepy' = 0]_vars

\* C25: Maze.set_step ends without raising, whatever the destination.
C25_NoRaise == crashed # "TypeError"

\* every entry of the window of the wounds of h is 0
Quiet(h) == \A i \in DOMAIN h.wounds : RIsZero(h.wounds[i])

\* C27: when an Orange hit has locked the healing (next_heal >= 0) and the
\* window of the wounds holds no damage, Hero.update sets next_heal to -1 and
\* a wound heals again, whatever the wound of the hit was.
C27_LockoutEnds ==
    [][(Running /\ pc = "hero" /\ ~hero.dead /\ ~RLt(hero.next_heal, RZero)
        /\ Quiet(hero))
       => /\ hero'.next_heal = R(-1)
          /\ RLt(RZero, hero.wound) => RLt(hero'.wound, hero.wound)]_vars

\* the step is Hero.update
IsHeroUpdate == Running /\ pc = "hero" /\ pc' # pc /\ ~hero.dead

\* the spin queue of the hero in Hero.update, after the rescaling and the
\* start of a spin, and the angle then
HeroQueue == IF hero'.began # <<>> THEN hero'.began[1].queue ELSE hero'.resc[1].q1

HeroFrom ==
    IF hero'.began # <<>>
    THEN RSub(hero.angle, RMul(R(sign(HeroQueue)), RDiv(R(2), R(Sides(hero')))))
    ELSE hero.angle

\* the step is Enemy.update of an awake enemy
IsEnemyUpdate ==
    /\ Running /\ pc = "enemies" /\ idx \in 1..Len(enemies) /\ idx' = idx + 1
    /\ enemies[idx].awake

\* the spin queue of that enemy in Enemy.update, after the rescaling and the
\* start of a spin
EnemyQueue ==
    IF enemies'[idx].began # <<>> THEN enemies'[idx].began[1].queue
    ELSE enemies'[idx].resc[1].q1

\* the angle a and the queue q become the angle b and the queue p by one
\* step of a spin that turns by turn: the queue goes toward 0 by 1
Stepped(a, q, b, p, turn) ==
    /\ b = RAdd(a, RMul(R(sign(q)), turn))
    /\ p = RSub(q, R(sign(q)))

\* the same, the queue keeping its sign
SteppedInSign(a, q, b, p, turn) ==
    /\ b = RAdd(a, RMul(R(sign(q)), turn))
    /\ RAbs(p) = RSub(RAbs(q), R(1))
    /\ sign(p) * sign(q) >= 0

Aims == {c[3] : c \in Controls} \cup {<<-1, 1>>, <<3, 4>>, <<-1, 4>>, <<13, 4>>}

\* the difference from the angle b to the angle a, brought into [-1, 1)
Shortest(a, b) ==
    CHOOSE d \in {RAdd(RSub(a, b), R(2 * k)) : k \in -3..3} :
        RLe(R(-1), d) /\ RLt(d, R(1))

\* C29: Hero.update_angle changes neither the angle nor the spin queue of a
\* hero whose queue does not round to 0; otherwise, delta being the shortest
\* signed difference to the angle asked for, it takes that angle and the
\* queue 0 when |delta| is below the turn of one frame, and else keeps the
\* angle and sets the queue to delta over that turn.
C29_Aim ==
    (Running /\ pc = "control" /\ ~hero.dead) =>
        \A a \in Aims :
            LET h2    == update_angle(hero, a)
                delta == Shortest(a, hero.angle)
                turn  == RDiv(RDiv(R(2), R(Sides(hero))), hero.spin_speed)
            IN  IF RRound(hero.spin_queue) # 0
                THEN h2.angle = hero.angle /\ h2.spin_queue = hero.spin_queue
                ELSE IF RLt(RAbs(delta), turn)
                THEN h2.angle = a /\ RIsZero(h2.spin_queue)
                ELSE h2.angle = hero.angle /\ h2.spin_queue = RDiv(delta, turn)

\* Game.control has asked a hero at rest, facing NW, to turn to the angle 0:
\* the queue is 3/4 over 1/3
C29_Witness ==
    /\ Running /\ pc = "update" /\ ticks >= 1 /\ ~hero.dead
    /\ hero.angle = <<-3, 4>> /\ hero.spin_queue = <<9, 4>>

\* the step is Maze.slash
IsSlash == Running /\ pc = "slash" /\ pc' # pc

\* the enemy e is closer to the hero than slashd
InReach(e) == RLt(EnemyDistance(e, centerx, centery, fps), slashd)

\* C30: in Maze.slash the hero is hit only if some enemy with a nonzero spin
\* queue, an awake one, is closer than slashd; an enemy is wounded or killed
\* only if the spin queue of the hero is nonzero and that enemy is closer
\* than slashd; and Maze.slash follows every Hero.update, which runs in
\* every tick of a living hero.
C30_MeleeGuards ==
    [][/\ (IsSlash /\ <<hero, enemy_weights, next_move>>' # <<hero, enemy_weights, next_move>>)
            => \E i \in 1..Len(enemies) :
                   /\ ~RIsZero(enemies[i].spin_queue) /\ enemies[i].awake
                   /\ InReach(enemies[i])
       /\ (IsSlash /\ died' = <<>>)
            => \A i \in 1..Len(enemies) :
                   RLt(enemies[i].wound, enemies'[i].wound)
                       => (~RIsZero(hero.spin_queue) /\ InReach(enemies[i]))
       /\ (IsSlash /\ died' # <<>>)
            => /\ ~RIsZero(hero.spin_queue)
               /\ \A j \in 1..Len(died') : InReach(died'[j])
       /\ \A i \in 1..Len(enemies) :
              ~enemies[i].awake => RIsZero(enemies[i].spin_queue)
       /\ IsHeroUpdate => pc' = "slash"
       /\ (Running /\ pc = "bullets" /\ pc' # pc /\ ~hero.dead) => pc' = "hero"]_vars

\* Maze.slash has just run: a spinning enemy within reach has hit the hero,
\* and the spinning hero has wounded it
C30_Witness ==
    /\ Running /\ pc = "lose" /\ ~RIsZero(hero.spin_queue)
    /\ RLt(RZero, hero.wounds[Len(hero.wounds)])
    /\ \E i \in 1..Len(enemies) :
           /\ ~RIsZero(enemies[i].spin_queue) /\ InReach(enemies[i])
           /\ RLt(RZero, enemies[i].wound)

\* C31: every call of add_enemy returns: the loop never spins on walls that
\* have WALL on all four sides while the maze is short of enemies.
C31_Terminates == crashed # "Hang"

(***************************************************************************)
(* Maze.set_step on its own: a maze as Maze.__init__ draws it, a           *)
(* destination in the window, and one call of set_step()                   *)
(***************************************************************************)
\* the wall sets the cells of these mazes are drawn with
SeekWallSets == {{1, 2}, {2, 3, 4}, {1, 3}, {1, 2, 4}}

\* Maze.__init__ lines 94-96: every cell is drawn with a wall set of its own
RECURSIVE DrawEach(_, _, _)
DrawEach(m, cs, w) ==
    IF cs = {} THEN m
    ELSE LET c == CHOOSE c \in cs : TRUE
         IN  DrawEach(new_cell(m, c[1], c[2], w[c]), cs \ {c}, w)

\* mazes whose cells take one of two wall sets, in a chequered pattern
Mazes ==
    { MapSet(DrawEach(EmptyMap, Cells,
                      [c \in Cells |-> IF (c[1] + c[2]) % 2 = 0 THEN a ELSE b]),
             MIDDLE, MIDDLE, HERO) : a \in SeekWallSets, b \in SeekWallSets }

\* how far from the hero the destination is, in grids: the window of the game
\* shows more than a cell on each side of the hero
SeekReach == 6

\* a game at rest with the destination on a grid near the hero, about to
\* call set_step
InitStep ==
    /\ pc = "seek" /\ ticks = 0 /\ crashed = "" /\ fps = 10
    /\ centerx = RDiv(R(WinW), R(2)) /\ centery = RDiv(R(WinH), R(2))
    /\ vx = RZero /\ vy = RZero /\ rotatex = 0 /\ rotatey = 0
    /\ destx \in (MIDDLE - SeekReach)..(MIDDLE + SeekReach)
    /\ desty \in (MIDDLE - SeekReach)..(MIDDLE + SeekReach)
    /\ stepx = 0 /\ stepy = 0
    /\ next_move = RZero /\ glitch = RZero /\ next_slashfx = RZero
    /\ idx = 0 /\ died = <<>> /\ asked = <<RZero, RZero>>
    /\ map \in Mazes
    /\ enemies = <<>> /\ bullets = <<>>
    /\ hero = Hero(10) /\ score = INIT_SCORE /\ enemy_weights = InitWeights
    /\ Local

\* Maze.set_step(): pc tells what it returned, "found" for False and "lost"
\* for True
Seek ==
    /\ Running /\ pc = "seek"
    /\ \/ \E st \in set_step(map, destx, desty, stepx, stepy, vx, vy) :
            /\ stepx' = st[1] /\ stepy' = st[2]
            /\ pc' = IF \/ Skips(map, destx, desty, stepx, stepy, vx, vy)
                                /\ MapAt(map, destx, desty) # EMPTY
                        \/ ~Skips(map, destx, desty, stepx, stepy, vx, vy)
                                /\ st \notin Fire(map, {<<destx, desty>>}, {}).steps
                     THEN "lost" ELSE "found"
            /\ crashed' = crashed
       \/ /\ ~Skips(map, destx, desty, stepx, stepy, vx, vy)
          /\ Fire(map, {<<destx, desty>>}, {}).raises
          /\ crashed' = "IndexError"
          /\ UNCHANGED <<pc, stepx, stepy>>
    /\ UNCHANGED <<ticks, server, fps, map, centerx, centery, vx, vy, rotatex, rotatey,
                   destx, desty, next_move, glitch, next_slashfx, score, enemy_weights,
                   enemies, bullets, hero, idx, died>>
    /\ UNCHANGED <<asked, sockinp, tpc, clients, replies, buf, data, sent>>

NextStep == Seek

SpecStep == InitStep /\ [][NextStep]_vars

\* more steps than any path of the maze has
Far == GridSize * GridSize

\* the length of the shortest path of EMPTY grids of the map, each step to
\* one of the eight grids around, from the frontier to a grid of the goal
RECURSIVE PathLength(_, _, _, _)
PathLength(m, frontier, seen, goal) ==
    IF frontier = {} THEN Far
    ELSE IF frontier \cap goal # {} THEN 0
    ELSE 1 + PathLength(m, {n \in UNION {Around(c) : c \in frontier} :
                               /\ n[1] \in Idx /\ n[2] \in Idx
                               /\ m[n[1]][n[2]] = EMPTY} \ (seen \cup frontier),
                        seen \cup frontier, goal)

\* set_step searches and returns False
Found == /\ pc = "seek" /\ pc' = "found"
         /\ ~Skips(map, destx, desty, stepx, stepy, vx, vy)

\* C32: when the search of set_step succeeds, the step is one of the eight
\* directions, the grid it leads to from MIDDLE is EMPTY, and that grid is as
\* close to the destination, along EMPTY grids, as any grid around the hero.
C32_ShortestStep ==
    [][Found =>
         LET c == <<MIDDLE - stepx', MIDDLE - stepy'>>
         IN  /\ stepx' \in -1..1 /\ stepy' \in -1..1
             /\ <<stepx', stepy'>> # <<0, 0>>
             /\ MapAt(map, c[1], c[2]) = EMPTY
             /\ PathLength(map, {<<destx, desty>>}, {}, {c}) < Far
             /\ PathLength(map, {<<destx, desty>>}, {}, {c})
                  = PathLength(map, {<<destx, desty>>}, {}, AROUND_HERO)]_vars

\* the search has found a way of at least four steps around a wall, and a
\* grid next to the hero that is farther from the destination was not chosen
C32_Witness ==
    /\ pc = "found" /\ <<stepx, stepy>> # <<0, 0>>
    /\ PathLength(map, {<<destx, desty>>}, {}, AROUND_HERO) >= 4
    /\ \E n \in AROUND_HERO :
         /\ MapAt(map, n[1], n[2]) = EMPTY
         /\ PathLength(map, {<<destx, desty>>}, {}, {n})
              > PathLength(map, {<<destx, desty>>}, {}, AROUND_HERO)

\* Maze.rotate has returned
IsRotate == pc = "rotate" /\ pc' = "wake"

C34_CountersBelowCell ==
    [][IsRotate =>
         /\ Scroll[1] \in -1..1 /\ Scroll[2] \in -1..1
         /\ IAbs(rotatex') < CELL_WIDTH /\ IAbs(rotatey') < CELL_WIDTH]_vars

\* C35: the grid of an enemy that die() has just removed is WALL when the
\* enemy was not awake and EMPTY when it was.
C35_AsleepKeepsWall ==
    \A k \in 1..Len(died) :
        MapAt(map, died[k].x, died[k].y) = IF died[k].awake THEN EMPTY ELSE WALL

\* Maze.update line 418: the enemies are asked to wake
Called == ~RIsZero(vx) \/ ~RIsZero(vy) \/ hero.firing \/ hero.slashing

\* a step that removes no enemy leaves the flags of the listed enemies alone
FlagsKept ==
    (pc # "wake" /\ ~IsReinit /\ died' = <<>> /\ Len(enemies') >= Len(enemies))
      => \A k \in 1..Len(enemies) : enemies'[k].awake = enemies[k].awake

\* the wake phase: an awake enemy is left as it is; an asleep one with a WALL
\* on its line stays asleep, one with no WALL on it wakes and its grid is
\* tagged ENEMY; no other grid changes
WakePhase ==
    pc = "wake" =>
      /\ Len(enemies') = Len(enemies)
      /\ \A k \in 1..Len(enemies) :
           LET e == enemies[k]
               w == enemies'[k]
           IN  /\ e.awake => w = e
               /\ (~e.awake /\ ~w.awake) => w = e
               /\ (~e.awake /\ w.awake)
                    => Called /\ CanWake(map', e) /\ MapAt(map', e.x, e.y) = ENEMY
               /\ (~e.awake /\ Called /\ ~CanWake(map', e)) => ~w.awake
               /\ (~e.awake /\ Called /\ CanWake(map, e)) => w.awake
      /\ \A i \in Idx, j \in Idx :
           map'[i][j] # map[i][j]
             => \E k \in 1..Len(enemies) :
                  /\ ~enemies[k].awake /\ enemies'[k].awake
                  /\ PyIdx(enemies[k].x) = i /\ PyIdx(enemies[k].y) = j

\* C36 as stated: the awake flag of a listed enemy changes only in wake(),
\* from False to True: no other step changes it, and the enemies add_enemy
\* has appended are asleep when it returns.
C36_OnlyWakeWakes ==
    [][/\ FlagsKept
       /\ WakePhase
       /\ pc \in {"rotate", "slash"} => \A i \in Appended : ~enemies'[i].awake]_vars

\* C36, amended: the awake flag of a listed enemy changes only in wake(), from
\* False to True, or in Plum.clone() for the Plum add_enemy has just appended,
\* which becomes the awake clone of an awake Plum listed before it.
C36_WakeOrClone ==
    [][/\ FlagsKept
       /\ WakePhase
       /\ pc \in {"rotate", "slash"} =>
            \A i \in Appended :
                enemies'[i].awake =>
                  /\ enemies'[i].color = "Plum"
                  /\ \E j \in 1..(i - 1) :
                       /\ enemies'[j].awake /\ enemies'[j].color = "Plum"
                       /\ enemies'[j].x = enemies'[i].x
                       /\ enemies'[j].y = enemies'[i].y]_vars

\* wake() has just woken an enemy of a new game: it is awake on the grid of
\* the wall it was put on, now tagged ENEMY
C36_Witness ==
    /\ Running /\ pc = "enemies" /\ idx = 1 /\ rotatex = 0 /\ rotatey = 0
    /\ \E k \in Awake :
         /\ MapAt(map, enemies[k].x, enemies[k].y) = ENEMY
         /\ \A m0 \in NewMaps : MapAt(m0, enemies[k].x, enemies[k].y) = WALL

(***************************************************************************)
(* Enemy.wake on a map whose only wall is the enemy's own grid             *)
(***************************************************************************)
\* an asleep enemy of either class on any grid but the hero's, its grid the
\* only WALL of the map, the hero moving so that Maze.update calls wake()
InitWake ==
    /\ pc = "wake" /\ ticks = 1 /\ crashed = "" /\ fps = 10
    /\ centerx = RDiv(R(WinW), R(2)) /\ centery = RDiv(R(WinH), R(2))
    /\ vx = R(4) /\ vy = RZero /\ rotatex = 0 /\ rotatey = 0
    /\ destx = MIDDLE /\ desty = MIDDLE /\ stepx = 0 /\ stepy = 0
    /\ next_move = RZero /\ glitch = RZero /\ next_slashfx = RZero
    /\ idx = 0 /\ died = <<>> /\ asked = <<RZero, RZero>>
    /\ \E x \in Idx, y \in Idx, color \in {"Plum", "Chameleon"} :
         /\ <<x, y>> # <<MIDDLE, MIDDLE>>
         /\ enemies = <<new_enemy(10, x, y, color)>>
         /\ map = MapSet(MapSet(EmptyMap, MIDDLE, MIDDLE, HERO), x, y, WALL)
    /\ bullets = <<>>
    /\ hero = Hero(10) /\ score = INIT_SCORE /\ enemy_weights = InitWeights
    /\ Local

NextWake == WakeStep

SpecWake == InitWake /\ [][NextWake]_vars

\* the enemy's grid is the only WALL of the map (or the enemy has woken and
\* no WALL is left)
LoneWall ==
    /\ Len(enemies) = 1
    /\ \A i \in Idx, j \in Idx :
         map[i][j] = WALL => (i = enemies[1].x /\ j = enemies[1].y)

\* C37: an asleep enemy on any grid but MIDDLE whose own grid is the only WALL
\* of the map is woken by wake(), whatever its position relative to the hero,
\* the grids next to the hero included, orthogonally or diagonally.
C37_LoneWallWakes ==
    (Running /\ pc = "enemies" /\ ticks = 1 /\ LoneWall /\ Called)
      => enemies[1].awake

(***************************************************************************)
(* The shots of a dead hero                                                *)
(***************************************************************************)
\* the number of bullets of the hero among bs
RECURSIVE HeroBullets(_)
HeroBullets(bs) ==
    IF bs = <<>> THEN 0
    ELSE (IF bs[1].color = "Aluminium" THEN 1 ELSE 0) + HeroBullets(Tail(bs))

\* C40: while hero.dead is True track_bullets adds no bullet of the hero
\* ('Aluminium') to maze.bullets, whatever hero.firing and hero.next_strike.
C40_DeadHeroHoldsFire ==
    [][(Running /\ hero.dead) => HeroBullets(bullets') <= HeroBullets(bullets)]_vars

(***************************************************************************)
(* The hero alone: the frame rate of Game.update and the attack clock      *)
(***************************************************************************)
MaxBeats == 5

\* Game.update lines 210-214: the fps after the comparison with the clock's
\* average, which may be below self.fps or not
NextFps(f, max_fps) == {f - 1} \cup (IF f < max_fps THEN {f + 5} ELSE {f})

\* the keys held between two updates, the mouse left where the hero points
BeatControls ==
    { <<0, 0, <<-3, 4>>, FALSE, FALSE>>,
      <<0, 0, <<-3, 4>>, TRUE, FALSE>>,
      <<0, 0, <<-3, 4>>, FALSE, TRUE>> }

\* history of the attacks of the hero: the simulated time from the end of the
\* update of the last attack to the end of the last update (no attack yet:
\* -1), the time the update of the last attack stood for, the attacks of the
\* last update, and the time that had passed since the attack before when
\* one was made
NoAttack ==
    [since |-> R(-1), first |-> RZero, shot |-> FALSE, slash |-> FALSE, gap |-> <<>>]

\* a new game without enemies nor walls in sight, max_fps = 10
InitBeat ==
    /\ InitCommon
    /\ map = MapSet(EmptyMap, MIDDLE, MIDDLE, HERO)
    /\ enemies = <<>> /\ bullets = <<>>
    /\ hero = Hero(10) @@ NoAttack
    /\ score = INIT_SCORE
    /\ centerx = RDiv(R(WinW), R(2))
    /\ vx = RZero
    /\ enemy_weights = InitWeights
    /\ Local

\* one turn of the main loop as the hero lives it: Game.update sets the fps,
\* Maze.update calls track_bullets, which takes hero.shots, then Hero.update;
\* Game.control sets the flags for the next turn.  The bullets shot meet no
\* one and are not followed.
Beat ==
    /\ Running /\ pc = "update" /\ ticks < MaxBeats
    /\ \E f \in NextFps(fps, 10), s \in Shots(hero), rs \in {-1, 1}, c \in BeatControls :
         LET tick  == RDiv(R(1000), R(f))
             h1    == HeroUpdate(s[1], f, rs)
             shot  == s[2] # <<>>
             slash == h1.began # <<>>
             now   == IF RLt(hero.since, RZero) THEN hero.since
                      ELSE RAdd(hero.since, tick)
             \* the time between the two updates, from end to end or from
             \* start to start, whichever is longer
             apart == RMax(now, RAdd(hero.since, hero.first))
             h2    == [update_angle(h1, c[3]) EXCEPT !.firing = c[4], !.slashing = c[5]]
         IN  /\ fps' = f
             /\ hero' = [h2 EXCEPT
                           !.since = IF shot \/ slash THEN RZero ELSE now,
                           !.first = IF shot \/ slash THEN tick ELSE hero.first,
                           !.shot = shot, !.slash = slash,
                           !.gap = IF (shot \/ slash) /\ ~RLt(hero.since, RZero)
                                   THEN <<apart>> ELSE <<>>]
    /\ ticks' = ticks + 1
    /\ UNCHANGED <<pc, server, crashed, map, centerx, centery, vx, vy, rotatex, rotatey,
                   destx, desty, stepx, stepy, next_move, glitch, next_slashfx, score,
                   enemy_weights, enemies, bullets, idx, died>>
    /\ UNCHANGED <<asked, sockinp, tpc, clients, replies, buf, data, sent>>

NextBeat == Beat

SpecBeat == InitBeat /\ [][NextBeat]_vars

\* C38: at the end of every Hero.update len(hero.wounds) is at most
\* fps * ATTACK_SPEED / 1000 + 1 for the fps of that tick, also after the
\* fps has decreased.
C38_WoundsWindow ==
    (Running /\ ticks > 0 /\ ~hero.dead)
      => RLe(R(Len(hero.wounds)),
             RAdd(RDiv(RMul(R(fps), ATTACK_SPEED), R(1000)), R(1)))

\* C39: between two consecutive attacks of the hero (a slash started by
\* Hero.update, a shot returned by Hero.shots) at least ATTACK_SPEED ms of
\* simulated time pass, and no update both shoots and starts a slash.
C39_AttackCooldown ==
    /\ \A k \in 1..Len(hero.gap) : RLe(ATTACK_SPEED, hero.gap[k])
    /\ ~(hero.shot /\ hero.slash)
====
